---- MODULE Spec2Model ----
(***************************************************************************)
(* Verification model of the SQL emission and result-hydration core:       *)
(*   - RawSqlResultsToEntityTransformer (row grouping and hydration)       *)
(*   - InsertQueryBuilder (INSERT emission)                                *)
(* Values are tagged records so that JavaScript's null / undefined /       *)
(* number / string / Buffer / object distinctions survive in the model.    *)
(***************************************************************************)
EXTENDS Integers, Sequences, FiniteSets, TLC

VARIABLES
    pc,                      \* position of the modelled caller
    scn,                     \* which query shape (fixture) is being run
    expressionMap,           \* QueryExpressionMap of the query under hydration
    rawResults,              \* rows returned so far by the execution collaborator
    rawRelationIdResults,    \* RelationIdLoadResult[] side results
    rawRelationCountResults, \* RelationCountLoadResult[] side results
    entities,                \* result of transform(rawResults, mainAlias)
    driver,                  \* connection.driver of the insert builder
    statement,               \* the INSERT text the builder built last
    sent,                    \* queryRunner.query calls and collaborator calls, in order
    events,                  \* broadcaster notifications, in order
    outcome,                 \* what execute() / getQuery() handed back or threw
    invoked                  \* the calls made on a builder that are recorded, in order

hvars == <<scn, expressionMap, rawResults, rawRelationIdResults,
           rawRelationCountResults, entities>>

ivars == <<driver, statement, sent, events, outcome, invoked>>

(***************************************************************************)
(* Bounds                                                                  *)
(***************************************************************************)
MaxRows == 3
MaxSideRows == 2
MaxValueSets == 2
MaxPredicateParameters == 1
MaxCalls == 3

(***************************************************************************)
(* JavaScript values                                                       *)
(***************************************************************************)
Undefined == [t |-> "undefined"]
Null      == [t |-> "null"]
Num(s)    == [t |-> "number", v |-> s]
Str(s)    == [t |-> "string", v |-> s]
Buf(hex)  == [t |-> "buffer", v |-> hex]
Obj(json) == [t |-> "object", v |-> json]
List(l)   == [t |-> "list", l |-> l]

Fn(sql)   == [t |-> "function", v |-> sql]

NoColumn   == [none |-> TRUE]
NoRelation == [none |-> TRUE]

\* sequences over S of length at most n
RECURSIVE SeqsUpTo(_, _)
SeqsUpTo(S, n) ==
    IF n = 0 THEN {<<>>}
    ELSE LET shorter == SeqsUpTo(S, n - 1)
         IN shorter \cup {Append(q, x) : q \in shorter, x \in S}

\* rawResult[key]: a missing key of a plain object reads as undefined
RowGet(row, key) == IF key \in DOMAIN row THEN row[key] ELSE Undefined

\* entity[property] = value
SetProperty(entity, property, value) ==
    [entity EXCEPT !.props = (property :> value) @@ @]

GetProperty(entity, property) ==
    IF property \in DOMAIN entity.props THEN entity.props[property] ELSE Undefined

\* DriverUtils.buildColumnAlias(driver, aliasName, databaseName)
buildColumnAlias(aliasName, databaseName) == aliasName \o "_" \o databaseName

\* driver.prepareOrmValue(value, column): the fixture's columns are plain
\* integer / text columns, which every driver hands back unchanged
prepareOrmValue(value, column) == value

\* Array.prototype.join("_"): null and undefined elements become "", every
\* other element its String() text
RECURSIVE JoinUnderscore(_)
JoinUnderscore(parts) ==
    IF Len(parts) = 0 THEN ""
    ELSE LET h == Head(parts)
             text == IF h.t \in {"undefined", "null"} THEN "" ELSE h.v
         IN IF Len(parts) = 1 THEN text
            ELSE text \o "_" \o JoinUnderscore(Tail(parts))

(***************************************************************************)
(* Metadata collaborator: the entity metadata the queries below refer to   *)
(***************************************************************************)
Col(target, name, internal) ==
    [target |-> target, databaseName |-> name, propertyName |-> name,
     isInternal |-> internal]

\* a join column and the column it references
JoinCol(name, referenced) ==
    [databaseName |-> name, propertyName |-> name, referencedColumn |-> referenced]

\* RelationMetadata; the join columns are filled in per relation below
Rel(target, path, type, inverse) ==
    [target |-> target, propertyPath |-> path, propertyName |-> path,
     relationType |-> type, inverseTarget |-> inverse, isOwning |-> FALSE,
     joinColumns |-> <<>>, inverseJoinColumns |-> <<>>,
     inverseRelationJoinColumns |-> <<>>,
     inverseRelationInverseJoinColumns |-> <<>>]

isManyToOne(relation)  == relation.relationType = "many-to-one"
isOneToMany(relation)  == relation.relationType = "one-to-many"
isOneToOne(relation)   == relation.relationType = "one-to-one"
isOneToOneOwner(relation)    == isOneToOne(relation) /\ relation.isOwning
isOneToOneNotOwner(relation) == isOneToOne(relation) /\ ~ relation.isOwning

Meta(target, columns, primaryColumns, relations) ==
    [target |-> target, tableType |-> "regular", columns |-> columns,
     primaryColumns |-> primaryColumns, relations |-> relations,
     discriminatorColumn |-> NoColumn, discriminatorValue |-> "",
     childEntityMetadatas |-> <<>>]

PostCategories ==
    [Rel("Post", "categories", "one-to-many", "Category")
        EXCEPT !.inverseRelationJoinColumns =
                    <<JoinCol("postId", Col("Post", "id", FALSE))>>]
PostAuthor ==
    [Rel("Post", "author", "many-to-one", "User")
        EXCEPT !.isOwning = TRUE,
               !.joinColumns = <<JoinCol("authorId", Col("User", "id", FALSE))>>]
PostEditor ==
    [Rel("Post", "editor", "many-to-one", "User")
        EXCEPT !.isOwning = TRUE,
               !.joinColumns = <<JoinCol("editorId", Col("User", "id", FALSE))>>]
UserProfile ==
    [Rel("User", "profile", "one-to-one", "Profile")
        EXCEPT !.isOwning = TRUE,
               !.joinColumns = <<JoinCol("profileId", Col("Profile", "id", FALSE))>>]
\* a many-to-many whose join table references the nullable unique column
\* Post.code (JoinTable joinColumn.referencedColumnName)
PostTags ==
    [Rel("Post", "tags", "many-to-many", "Tag")
        EXCEPT !.isOwning = TRUE,
               !.joinColumns = <<JoinCol("postCode", Col("Post", "code", FALSE))>>,
               !.inverseJoinColumns = <<JoinCol("tagId", Col("Tag", "id", FALSE))>>]
LinkNotes ==
    [Rel("PostLink", "notes", "one-to-many", "Note")
        EXCEPT !.inverseRelationJoinColumns =
                    <<JoinCol("linkId", Col("PostLink", "postId", TRUE))>>]
LinkPost ==
    [Rel("PostLink", "post", "many-to-one", "Post")
        EXCEPT !.isOwning = TRUE,
               !.joinColumns = <<JoinCol("postId", Col("Post", "id", FALSE))>>]

ContentOwnColumns ==
    <<Col("Content", "id", FALSE), Col("Content", "type", FALSE),
      Col("Content", "title", FALSE)>>

EntityMetadatas ==
    [ Post |-> Meta("Post", <<Col("Post", "id", FALSE), Col("Post", "title", FALSE),
                                    Col("Post", "code", FALSE)>>,
                    <<Col("Post", "id", FALSE)>>,
                    {PostCategories, PostAuthor, PostEditor, PostTags}),
      Category |-> Meta("Category",
                    <<Col("Category", "id", FALSE), Col("Category", "name", FALSE)>>,
                    <<Col("Category", "id", FALSE)>>, {}),
      User |-> Meta("User", <<Col("User", "id", FALSE), Col("User", "name", FALSE)>>,
                    <<Col("User", "id", FALSE)>>, {UserProfile}),
      Profile |-> Meta("Profile", <<Col("Profile", "id", FALSE)>>,
                    <<Col("Profile", "id", FALSE)>>, {}),
      \* an entity whose only primary column is the internal column of a relation
      PostLink |-> Meta("PostLink", <<Col("PostLink", "postId", TRUE)>>,
                    <<Col("PostLink", "postId", TRUE)>>, {LinkPost, LinkNotes}),
      Note |-> Meta("Note", <<Col("Note", "id", FALSE)>>, <<Col("Note", "id", FALSE)>>, {}),
      \* an entity with a composite primary key of two text columns
      Pair |-> Meta("Pair", <<Col("Pair", "a", FALSE), Col("Pair", "b", FALSE)>>,
                    <<Col("Pair", "a", FALSE), Col("Pair", "b", FALSE)>>, {}),
      \* single-table inheritance: Content with the child types Photo and Question
      Content |-> [Meta("Content",
                    ContentOwnColumns \o <<Col("Photo", "size", FALSE),
                                           Col("Question", "votes", FALSE)>>,
                    <<Col("Content", "id", FALSE)>>, {})
                    EXCEPT !.discriminatorColumn = Col("Content", "type", FALSE),
                           !.discriminatorValue = "Content",
                           !.childEntityMetadatas = <<"Photo", "Question">>],
      Photo |-> [Meta("Photo", ContentOwnColumns \o <<Col("Photo", "size", FALSE)>>,
                    <<Col("Content", "id", FALSE)>>, {})
                    EXCEPT !.discriminatorColumn = Col("Content", "type", FALSE),
                           !.discriminatorValue = "Photo"],
      Question |-> [Meta("Question",
                    ContentOwnColumns \o <<Col("Question", "votes", FALSE)>>,
                    <<Col("Content", "id", FALSE)>>, {})
                    EXCEPT !.discriminatorColumn = Col("Content", "type", FALSE),
                           !.discriminatorValue = "Question"] ]

\* alias.metadata
\* connection.getMetadata(target)
getMetadata(target) == expressionMap.connection.entityMetadatas[target]

MetadataOf(aliasName) == getMetadata(expressionMap.aliases[aliasName])

SeqToSet(s) == {s[i] : i \in DOMAIN s}

(***************************************************************************)
(* Query shapes: the expression maps hydration is run against              *)
(***************************************************************************)
Select(aliasName, column, internal) ==
    [target |-> aliasName, column |-> column,
     alias |-> buildColumnAlias(aliasName, column.databaseName),
     internal |-> internal]

\* a join on a relation of the parent alias (leftJoin / leftJoinAndSelect)
RelationJoin(parentAlias, relation, aliasName, isMany, isSelected) ==
    [hasMetadata |-> TRUE, isSelected |-> isSelected, relation |-> relation,
     mapToProperty |-> "", mapToPropertyParentAlias |-> "",
     mapToPropertyPropertyName |-> "", parentAlias |-> parentAlias,
     relationPropertyPath |-> relation.propertyPath, alias |-> aliasName,
     isMany |-> isMany]

\* a join mapped to a property (leftJoinAndMapOne / leftJoinAndMapMany)
MappedJoin(parentAlias, propertyName, aliasName, isMany) ==
    [hasMetadata |-> TRUE, isSelected |-> TRUE, relation |-> NoRelation,
     mapToProperty |-> parentAlias \o "." \o propertyName,
     mapToPropertyParentAlias |-> parentAlias,
     mapToPropertyPropertyName |-> propertyName, parentAlias |-> "",
     relationPropertyPath |-> "", alias |-> aliasName, isMany |-> isMany]

Map(aliases, selects, joinAttributes) ==
    [aliases |-> aliases, mainAlias |-> "p", selects |-> selects,
     joinAttributes |-> joinAttributes, options |-> {},
     connection |-> [entityMetadatas |-> EntityMetadatas]]

PostId    == Col("Post", "id", FALSE)
PostTitle == Col("Post", "title", FALSE)
PostCode  == Col("Post", "code", FALSE)
CategoryId == Col("Category", "id", FALSE)
UserId    == Col("User", "id", FALSE)
ContentId == Col("Content", "id", FALSE)
LinkPostId == Col("PostLink", "postId", TRUE)

ExpressionMapOf(s) ==
    CASE s = "fanout" ->
           \* posts with their categories (leftJoinAndSelect)
           Map([p |-> "Post", c |-> "Category"],
               <<Select("p", PostId, FALSE), Select("c", CategoryId, FALSE)>>,
               <<RelationJoin("p", PostCategories, "c", TRUE, TRUE)>>)
      [] s = "partial" ->
           \* only c.name is selected: the primary column of c is force-selected
           Map([p |-> "Post", c |-> "Category"],
               <<Select("p", PostId, FALSE), Select("c", CategoryId, TRUE),
                 Select("c", Col("Category", "name", FALSE), FALSE)>>,
               <<RelationJoin("p", PostCategories, "c", TRUE, TRUE)>>)
      [] s = "joins" ->
           \* author selected, editor joined without selection, the author's
           \* profile nested under a, a reviewer mapped to a property
           Map([p |-> "Post", a |-> "User", e |-> "User", f |-> "Profile", r |-> "User"],
               <<Select("p", PostId, FALSE), Select("a", UserId, FALSE),
                 Select("f", Col("Profile", "id", FALSE), FALSE),
                 Select("r", UserId, FALSE)>>,
               <<RelationJoin("p", PostAuthor, "a", FALSE, TRUE),
                 RelationJoin("p", PostEditor, "e", FALSE, FALSE),
                 RelationJoin("a", UserProfile, "f", FALSE, TRUE),
                 MappedJoin("p", "reviewer", "r", FALSE)>>)
      [] s = "sti" ->
           Map([p |-> "Content"],
               <<Select("p", ContentId, FALSE),
                 Select("p", Col("Content", "type", FALSE), FALSE),
                 Select("p", Col("Photo", "size", FALSE), FALSE),
                 Select("p", Col("Question", "votes", FALSE), FALSE)>>,
               <<>>)
      [] s = "ghost" ->
           \* only p.title is selected: the primary column of p is force-selected
           Map([p |-> "Post", c |-> "Category"],
               <<Select("p", PostId, TRUE), Select("p", PostTitle, FALSE),
                 Select("c", CategoryId, FALSE)>>,
               <<RelationJoin("p", PostCategories, "c", TRUE, TRUE)>>)
      [] s = "link" ->
           Map([p |-> "PostLink", q |-> "Post"],
               <<Select("p", LinkPostId, FALSE), Select("q", PostId, FALSE)>>,
               <<RelationJoin("p", LinkPost, "q", FALSE, TRUE)>>)
      [] s = "linkside" ->
           Map([p |-> "PostLink"], <<Select("p", LinkPostId, FALSE)>>, <<>>)
      [] s = "counts" ->
           Map([p |-> "Post"],
               <<Select("p", PostId, FALSE), Select("p", PostCode, FALSE)>>, <<>>)
      [] s = "pairs" ->
           Map([p |-> "Pair"],
               <<Select("p", Col("Pair", "a", FALSE), FALSE),
                 Select("p", Col("Pair", "b", FALSE), FALSE)>>, <<>>)
      [] s = "tagids" ->
           \* posts with the ids of their tags (loadRelationIdAndMap)
           Map([p |-> "Post"],
               <<Select("p", PostId, FALSE), Select("p", PostCode, FALSE)>>, <<>>)

One == Num("1")
Two == Num("2")

\* the cell values the database can return for each result field
CellDomain(s) ==
    CASE s = "fanout" -> [p_id |-> {One, Two}, c_id |-> {Null, One, Two}]
      [] s = "partial" -> [p_id |-> {One, Two}, c_id |-> {Null, One, Two},
                           c_name |-> {Null, Str("x")}]
      [] s = "joins" -> [p_id |-> {One, Two}, a_id |-> {Null, One},
                         f_id |-> {Null, One}, r_id |-> {Null, One}]
      [] s = "sti" -> [p_id |-> {One, Two},
                       p_type |-> {Str("Photo"), Str("Question"), Str("Other")},
                       p_size |-> {Null, Str("9")}, p_votes |-> {Null, Str("3")}]
      [] s = "ghost" -> [p_id |-> {One, Two}, p_title |-> {Null, Str("t")},
                         c_id |-> {Null, One}]
      [] s = "link" -> [p_postId |-> {One, Two}, q_id |-> {Null, One}]
      [] s = "linkside" -> [p_postId |-> {One, Two}]
      [] s = "counts" -> [p_id |-> {One, Two}, p_code |-> {Null, One, Two}]
      [] s = "tagids" -> [p_id |-> {One, Two}, p_code |-> {One, Two}]
      [] s = "pairs" -> [p_a |-> {Str("x"), Str("x_y")},
                         p_b |-> {Str("z"), Str("y_z")}]

Scenarios ==
    {"fanout", "partial", "joins", "sti", "ghost", "link", "linkside", "counts",
     "tagids", "pairs"}

\* an outer join that found no row returns NULL in every column of the alias
RowConsistentIn(map, row) ==
       \A a \in DOMAIN map.aliases :
        LET metadata == map.connection.entityMetadatas[map.aliases[a]]
            fields == {buildColumnAlias(a, metadata.columns[i].databaseName) :
                        i \in DOMAIN metadata.columns} \cap DOMAIN row
            keys == {buildColumnAlias(a, metadata.primaryColumns[i].databaseName) :
                        i \in DOMAIN metadata.primaryColumns} \cap DOMAIN row
        IN (\E k \in keys : row[k] = Null) => \A f \in fields : row[f] = Null

RowConsistent(s, row) == RowConsistentIn(ExpressionMapOf(s), row)

RowsOf(s) ==
    LET dom == CellDomain(s)
    IN {r \in [DOMAIN dom -> UNION {dom[f] : f \in DOMAIN dom}] :
            (\A f \in DOMAIN dom : r[f] \in dom[f]) /\ RowConsistent(s, r)}

(***************************************************************************)
(* RawSqlResultsToEntityTransformer                                        *)
(***************************************************************************)
\* the normalisation of one key value inside group()
KeyValue(keyValue) ==
    IF keyValue.t = "buffer" THEN Str(keyValue.v)            \* toString("hex")
    ELSE IF keyValue.t = "object" THEN Str(keyValue.v)       \* JSON.stringify
    ELSE IF keyValue.t = "null" THEN Str("null")             \* typeof null === "object"
    ELSE keyValue

\* the id group() computes for one raw row
GroupKeys(aliasName, columns) ==
    [i \in DOMAIN columns |-> buildColumnAlias(aliasName, columns[i].databaseName)]

GroupColumns(metadata) ==
    IF metadata.tableType = "view" THEN metadata.columns ELSE metadata.primaryColumns

GroupIdOf(rawResult, keys) ==
    JoinUnderscore([i \in DOMAIN keys |-> KeyValue(RowGet(rawResult, keys[i]))])

GroupId(rawResult, aliasName) ==
    GroupIdOf(rawResult, GroupKeys(aliasName, GroupColumns(MetadataOf(aliasName))))

\* map.get(id) / map.set(id, [rawResult]) / items.push(rawResult) on the
\* insertion-ordered Map, kept as a sequence of [id, items] entries
\* mutants of MapPut: a Map that never finds the id; a Map that iterates new
\* keys first
MapPutNoMerge(map, id, rawResult) == Append(map, [id |-> id, items |-> <<rawResult>>])

MapPutNewFirst(map, id, rawResult) ==
    IF \E i \in DOMAIN map : map[i].id = id
    THEN [i \in DOMAIN map |->
            IF map[i].id = id
            THEN [map[i] EXCEPT !.items = Append(@, rawResult)]
            ELSE map[i]]
    ELSE <<[id |-> id, items |-> <<rawResult>>]>> \o map

MapPut(map, id, rawResult) ==
    IF \E i \in DOMAIN map : map[i].id = id
    THEN [i \in DOMAIN map |->
            IF map[i].id = id
            THEN [map[i] EXCEPT !.items = Append(@, rawResult)]
            ELSE map[i]]
    ELSE Append(map, [id |-> id, items |-> <<rawResult>>])

RECURSIVE GroupFrom(_, _, _)
GroupFrom(map, rawRows, aliasName) ==
    IF rawRows = <<>> THEN map
    ELSE GroupFrom(MapPut(map, GroupId(Head(rawRows), aliasName), Head(rawRows)),
                   Tail(rawRows), aliasName)

group(rawRows, aliasName) == GroupFrom(<<>>, rawRows, aliasName)

\* metadata.create(queryRunner), or {} under the "create-pojo" option
CreateEntity(metadata) ==
    [t |-> "entity",
     meta |-> IF "create-pojo" \in expressionMap.options THEN "Object"
              ELSE metadata.target,
     props |-> <<>>]

\* the filter of transformColumns: the selects hydrated as plain columns
IsColumnSelect(select, aliasName, metadata) ==
    /\ select.target = aliasName
    /\ select.column # NoColumn
    /\ ~ \E i \in DOMAIN metadata.childEntityMetadatas :
            getMetadata(metadata.childEntityMetadatas[i]).target = select.column.target
    /\ select.column \in SeqToSet(metadata.columns)
    /\ ~ (select.internal \/ select.column.isInternal)

ResultFieldName(select) ==
    IF select.alias # "" THEN select.alias ELSE select.column.databaseName

RECURSIVE ColumnsFrom(_, _, _, _, _)
ColumnsFrom(i, rawRows, aliasName, acc, metadata) ==
    IF i > Len(expressionMap.selects) THEN acc
    ELSE LET select == expressionMap.selects[i]
             value == RowGet(rawRows[1], ResultFieldName(select))
         IN IF ~ IsColumnSelect(select, aliasName, metadata) \/ value = Undefined
            THEN ColumnsFrom(i + 1, rawRows, aliasName, acc, metadata)
            ELSE ColumnsFrom(i + 1, rawRows, aliasName,
                    [entity |-> SetProperty(acc.entity, select.column.propertyName,
                                            prepareOrmValue(value, select.column)),
                     hasData |-> (value # Null) \/ acc.hasData],
                    metadata)

transformColumns(rawRows, aliasName, entity, metadata) ==
    ColumnsFrom(1, rawRows, aliasName, [entity |-> entity, hasData |-> FALSE], metadata)

\* mutant: the discriminator is ignored
ResolveBaseMetadata(rawRows, aliasName) == MetadataOf(aliasName)

\* the discriminator step of transformRawResultsGroup: the metadata the
\* group is hydrated with
\* the least index of a non-empty set of indexes: Array.prototype.find
First(indexes) == CHOOSE i \in indexes : \A j \in indexes : i <= j

\* metadata.childEntityMetadatas.find(...) || metadata
ChildMetadata(metadata, matching) ==
    IF matching = {} THEN metadata
    ELSE getMetadata(metadata.childEntityMetadatas[First(matching)])

DiscriminatedMetadata(metadata, discriminatorValues) ==
    ChildMetadata(metadata,
        {i \in DOMAIN metadata.childEntityMetadatas :
            Str(getMetadata(metadata.childEntityMetadatas[i]).discriminatorValue)
                \in discriminatorValues})

\* rawResults.map(result => result[discriminatorSelect.alias])
DiscriminatorValues(rawRows, discriminatorSelect) ==
    {RowGet(rawRows[k], discriminatorSelect.alias) : k \in DOMAIN rawRows}

ResolveFound(rawRows, metadata, found) ==
    IF metadata.discriminatorColumn = NoColumn \/ found = {} THEN metadata
    ELSE DiscriminatedMetadata(metadata,
            DiscriminatorValues(rawRows, expressionMap.selects[First(found)]))

ResolveIn(rawRows, metadata) ==
    ResolveFound(rawRows, metadata,
        {i \in DOMAIN expressionMap.selects :
            expressionMap.selects[i].column = metadata.discriminatorColumn})

ResolveMetadata(rawRows, aliasName) == ResolveIn(rawRows, MetadataOf(aliasName))

\* the column of the parent alias a relation count is correlated on
ReferenceColumnName(relation) ==
    IF isOneToMany(relation)
    THEN relation.inverseRelationJoinColumns[1].referencedColumn.databaseName
    ELSE IF relation.isOwning
         THEN relation.joinColumns[1].referencedColumn.databaseName
         ELSE relation.inverseRelationJoinColumns[1].referencedColumn.databaseName

\* parseInt(result["cnt"]) for the decimal texts the database returns
parseInt(cell) == IF cell.t \in {"number", "string"} THEN Num(cell.v) ELSE [t |-> "NaN"]

\* mutant: the count property is not defaulted
DefaultCountSkipped(entity, property) == entity

\* entity[mapToPropertyPropertyName] = 0
DefaultCount(entity, property) == SetProperty(entity, property, Num("0"))

\* the inner forEach of transformRelationCounts over the matching side rows
RECURSIVE CountRowsFrom(_, _, _, _, _)
CountRowsFrom(i, results, referenceColumnValue, property, acc) ==
    IF i > Len(results) THEN acc
    ELSE IF results[i].parentId = referenceColumnValue
         THEN CountRowsFrom(i + 1, results, referenceColumnValue, property,
                [entity |-> SetProperty(acc.entity, property, parseInt(results[i].cnt)),
                 hasData |-> TRUE])
         ELSE CountRowsFrom(i + 1, results, referenceColumnValue, property, acc)

RECURSIVE RelationCountsFrom(_, _, _, _)
RelationCountsFrom(i, rawRows, aliasName, acc) ==
    IF i > Len(rawRelationCountResults) THEN acc
    ELSE LET r == rawRelationCountResults[i]
             attr == r.relationCountAttribute
             referenceColumnValue ==
                RowGet(rawRows[1],
                       buildColumnAlias(aliasName, ReferenceColumnName(attr.relation)))
         IN IF attr.parentAlias # aliasName
               \/ referenceColumnValue = Undefined \/ referenceColumnValue = Null
            THEN RelationCountsFrom(i + 1, rawRows, aliasName, acc)
            ELSE RelationCountsFrom(i + 1, rawRows, aliasName,
                    CountRowsFrom(1, r.results, referenceColumnValue,
                        attr.mapToPropertyPropertyName,
                        [acc EXCEPT !.entity =
                            DefaultCount(@, attr.mapToPropertyPropertyName)]))

transformRelationCounts(rawRows, aliasName, entity) ==
    RelationCountsFrom(1, rawRows, aliasName, [entity |-> entity, hasData |-> FALSE])

\* ColumnMetadata.createValueMap(value) and getEntityValue(map) for a column
\* that is not embedded: a one-property object, and the read of that property
createValueMap(column, value) == (column.propertyName :> value)

getEntityValue(column, map) ==
    IF column.propertyName \in DOMAIN map THEN map[column.propertyName] ELSE Undefined

\* OrmUtils.mergeDeep(target, source) on flat id maps
mergeDeep(target, source) == source @@ target

\* OrmUtils.compareIds(firstId, secondId) on id maps
compareIds(firstId, secondId) ==
    /\ DOMAIN firstId = DOMAIN secondId
    /\ \A k \in DOMAIN firstId : firstId[k] = secondId[k]

\* the columns createValueMapFromJoinColumns and extractEntityPrimaryIds
\* correlate a relation-id side row with its parent on
ParentIdColumns(relation) ==
    IF isManyToOne(relation) \/ isOneToOneOwner(relation)
    THEN getMetadata(relation.target).primaryColumns
    ELSE IF isOneToMany(relation) \/ isOneToOneNotOwner(relation)
         THEN relation.inverseRelationJoinColumns
         ELSE IF relation.isOwning THEN relation.joinColumns
              ELSE relation.inverseRelationInverseJoinColumns

\* rawSqlResults.forEach(... valueMap[column.databaseName] = ...): every row
\* of the group assigns the entry, so the last row's value stays
RECURSIVE ValueMapRowsFrom(_, _, _, _, _, _)
ValueMapRowsFrom(k, rawRows, relation, parentAlias, column, valueMap) ==
    IF k > Len(rawRows) THEN valueMap
    ELSE LET name == IF isManyToOne(relation) \/ isOneToOneOwner(relation)
                     THEN column.databaseName
                     ELSE column.referencedColumn.databaseName
             value == prepareOrmValue(
                        RowGet(rawRows[k], buildColumnAlias(parentAlias, name)), column)
         IN ValueMapRowsFrom(k + 1, rawRows, relation, parentAlias, column,
                             (column.databaseName :> value) @@ valueMap)

RECURSIVE ValueMapFrom(_, _, _, _, _)
ValueMapFrom(i, columns, relation, parentAlias, rawRows) ==
    IF i = 0 THEN <<>>
    ELSE ValueMapRowsFrom(1, rawRows, relation, parentAlias, columns[i],
            ValueMapFrom(i - 1, columns, relation, parentAlias, rawRows))

createValueMapFromJoinColumns(relation, parentAlias, rawRows) ==
    LET columns == ParentIdColumns(relation)
    IN ValueMapFrom(Len(columns), columns, relation, parentAlias, rawRows)

RECURSIVE ExtractFrom(_, _, _)
ExtractFrom(i, columns, relationIdRawResult) ==
    IF i = 0 THEN <<>>
    ELSE (columns[i].databaseName :>
            RowGet(relationIdRawResult, columns[i].databaseName))
         @@ ExtractFrom(i - 1, columns, relationIdRawResult)

extractEntityPrimaryIds(relation, relationIdRawResult) ==
    LET columns == ParentIdColumns(relation)
    IN ExtractFrom(Len(columns), columns, relationIdRawResult)

\* the columns whose values make up the related entity's id
RelatedIdColumns(relation) ==
    IF isManyToOne(relation) \/ isOneToOneOwner(relation) THEN relation.joinColumns
    ELSE IF isOneToMany(relation) \/ isOneToOneNotOwner(relation)
         THEN getMetadata(relation.inverseTarget).primaryColumns
         ELSE IF relation.isOwning THEN relation.inverseJoinColumns
              ELSE relation.inverseRelationJoinColumns

RECURSIVE IdMapFrom(_, _, _, _)
IdMapFrom(i, columns, relation, result) ==
    IF i = 0 THEN <<>>
    ELSE LET column == columns[i]
             value == RowGet(result, column.databaseName)
             idMap == IdMapFrom(i - 1, columns, relation, result)
         IN IF isOneToMany(relation) \/ isOneToOneNotOwner(relation)
            THEN mergeDeep(idMap, createValueMap(column, value))
            ELSE mergeDeep(idMap, createValueMap(column.referencedColumn, value))

\* the id a matching side row contributes: the bare id (single column,
\* mixed map) or the id map
MixedId(attr, columns, idMap) ==
    IF Len(columns) = 1 /\ ~ attr.disableMixedMap
    THEN IF isOneToMany(attr.relation) \/ isOneToOneNotOwner(attr.relation)
         THEN getEntityValue(columns[1], idMap)
         ELSE getEntityValue(columns[1].referencedColumn, idMap)
    ELSE [t |-> "idmap", map |-> idMap]

RelatedId(attr, columns, result) ==
    MixedId(attr, columns, IdMapFrom(Len(columns), columns, attr.relation, result))

\* the value one side row contributes: undefined when it belongs to another
\* parent
RelationIdOf(rawRelationIdResult, valueMap, result) ==
    IF ~ compareIds(extractEntityPrimaryIds(
                        rawRelationIdResult.relationIdAttribute.relation, result),
                    valueMap)
    THEN Undefined
    ELSE RelatedId(rawRelationIdResult.relationIdAttribute,
                   RelatedIdColumns(rawRelationIdResult.relationIdAttribute.relation),
                   result)

\* .filter(result => result !== undefined)
AppendDefined(rest, id) == IF id = Undefined THEN rest ELSE Append(rest, id)

RECURSIVE IdMapsFrom(_, _, _)
IdMapsFrom(i, rawRelationIdResult, valueMap) ==
    IF i = 0 THEN <<>>
    ELSE AppendDefined(IdMapsFrom(i - 1, rawRelationIdResult, valueMap),
                       RelationIdOf(rawRelationIdResult, valueMap,
                                    rawRelationIdResult.results[i]))

\* the assignment of the ids found for one relation-id attribute
RelationIdAssign(attr, idMaps, acc) ==
    IF isOneToOne(attr.relation) \/ isManyToOne(attr.relation)
    THEN IF idMaps # <<>>
         THEN [entity |-> SetProperty(acc.entity, attr.mapToPropertyPropertyPath,
                                      idMaps[1]),
               hasData |-> TRUE]
         ELSE acc
    ELSE [entity |-> SetProperty(acc.entity, attr.mapToPropertyPropertyPath,
                                 List(idMaps)),
          hasData |-> acc.hasData \/ idMaps # <<>>]

\* one pass of the rawRelationIdResults.forEach callback
RelationIdStep(r, rawRows, aliasName, acc) ==
    IF r.relationIdAttribute.parentAlias # aliasName THEN acc
    ELSE RelationIdAssign(r.relationIdAttribute,
            IdMapsFrom(Len(r.results), r,
                createValueMapFromJoinColumns(r.relationIdAttribute.relation,
                    r.relationIdAttribute.parentAlias, rawRows)),
            acc)

RECURSIVE RelationIdsFrom(_, _, _, _)
RelationIdsFrom(i, rawRows, aliasName, acc) ==
    IF i > Len(rawRelationIdResults) THEN acc
    ELSE RelationIdsFrom(i + 1, rawRows, aliasName,
            RelationIdStep(rawRelationIdResults[i], rawRows, aliasName, acc))

transformRelationIds(rawRows, aliasName, entity, metadata) ==
    RelationIdsFrom(1, rawRows, aliasName, [entity |-> entity, hasData |-> FALSE])

\* the early returns of the joinAttributes.forEach callback: TRUE when the
\* join is hydrated onto the entity of the given alias
JoinApplies(join, aliasName, metadata) ==
    /\ join.hasMetadata
    /\ join.isSelected
    /\ ~ (join.relation # NoRelation /\ join.relation \notin metadata.relations)
    /\ IF join.mapToProperty # ""
       THEN join.mapToPropertyParentAlias = aliasName
       ELSE /\ join.relation # NoRelation
            /\ join.parentAlias = aliasName
            /\ join.relationPropertyPath = join.relation.propertyPath

\* mutant: the absent non-many join left undefined, hence skipped
JoinResultNoNull(join, result) ==
    IF join.isMany THEN List(result)
    ELSE IF result = <<>> THEN Undefined ELSE result[1]

\* result = !join.isMany ? result[0] : result, then null for an absent
\* non-many join
JoinResult(join, result) ==
    IF join.isMany THEN List(result)
    ELSE IF result = <<>> THEN Null ELSE result[1]

JoinProperty(join) ==
    IF join.mapToPropertyPropertyName # "" THEN join.mapToPropertyPropertyName
    ELSE join.relation.propertyName

\* if (result === undefined) return; else the property is assigned and
\* hasData set
JoinAssign(join, result, acc) ==
    IF result = Undefined THEN acc
    ELSE [entity |-> SetProperty(acc.entity, JoinProperty(join), result),
          hasData |-> TRUE]

RECURSIVE transform(_, _), TransformGroups(_, _, _), transformRawResultsGroup(_, _),
          JoinsFrom(_, _, _, _, _), JoinStep(_, _, _, _, _)

\* one pass of the joinAttributes.forEach callback
JoinStep(join, rawRows, aliasName, metadata, acc) ==
    IF ~ JoinApplies(join, aliasName, metadata) THEN acc
    ELSE JoinAssign(join, JoinResult(join, transform(rawRows, join.alias)), acc)

JoinsFrom(i, rawRows, aliasName, metadata, acc) ==
    IF i > Len(expressionMap.joinAttributes) THEN acc
    ELSE JoinsFrom(i + 1, rawRows, aliasName, metadata,
            JoinStep(expressionMap.joinAttributes[i], rawRows, aliasName,
                     metadata, acc))

transformJoins(rawRows, entity, aliasName, metadata) ==
    JoinsFrom(1, rawRows, aliasName, metadata, [entity |-> entity, hasData |-> FALSE])

\* mutant: the exception for relation-only entities applied to every entity
anyPrimaryColumns(metadata) == TRUE

hasOnlyInternalPrimaryColumns(metadata) ==
    \A i \in DOMAIN metadata.primaryColumns : metadata.primaryColumns[i].isInternal

\* the emptiness rule that ends transformRawResultsGroup; columns, joins,
\* ids and counts are what the four steps returned
EntityOrUndefined(metadata, columns, joins, ids, counts) ==
    IF columns.hasData THEN counts.entity
    ELSE IF hasOnlyInternalPrimaryColumns(metadata)
            /\ (joins.hasData \/ ids.hasData \/ counts.hasData)
         THEN counts.entity
         ELSE Undefined

AfterRelationIds(rawRows, aliasName, metadata, columns, joins, ids) ==
    EntityOrUndefined(metadata, columns, joins, ids,
        transformRelationCounts(rawRows, aliasName, ids.entity))

AfterJoins(rawRows, aliasName, metadata, columns, joins) ==
    AfterRelationIds(rawRows, aliasName, metadata, columns, joins,
        transformRelationIds(rawRows, aliasName, joins.entity, metadata))

RECURSIVE AfterColumns(_, _, _, _), GroupWith(_, _, _)
AfterColumns(rawRows, aliasName, metadata, columns) ==
    AfterJoins(rawRows, aliasName, metadata, columns,
        transformJoins(rawRows, columns.entity, aliasName, metadata))

GroupWith(rawRows, aliasName, metadata) ==
    AfterColumns(rawRows, aliasName, metadata,
        transformColumns(rawRows, aliasName, CreateEntity(metadata), metadata))

transformRawResultsGroup(rawRows, aliasName) ==
    GroupWith(rawRows, aliasName, ResolveMetadata(rawRows, aliasName))

\* .filter(res => res !== undefined) over the mapped groups
PrependDefined(entity, rest) ==
    IF entity # Undefined THEN <<entity>> \o rest ELSE rest

TransformGroups(k, groups, aliasName) ==
    IF k > Len(groups) THEN <<>>
    ELSE PrependDefined(transformRawResultsGroup(groups[k].items, aliasName),
                        TransformGroups(k + 1, groups, aliasName))

transform(rawRows, aliasName) == TransformGroups(1, group(rawRows, aliasName), aliasName)

(***************************************************************************)
(* Collaborators of the insert builder: driver and target metadata         *)
(***************************************************************************)
Drivers == {"postgres", "mysql", "sqlite", "oracle", "mssql", "sap"}

\* Driver.escape(name): the name inside the driver's quote character (the
\* grave accent of mysql is written ' here)
escape(drv, name) ==
    IF drv = "mysql" THEN "'" \o name \o "'" ELSE "\"" \o name \o "\""

\* Driver.createParameter(parameterName, index)
createParameter(drv, parameterName, index) ==
    CASE drv = "postgres" -> "$" \o ToString(index + 1)
      [] drv = "oracle"   -> ":" \o ToString(index + 1)
      [] drv = "mssql"    -> "@" \o ToString(index)
      [] OTHER            -> "?"

\* Driver.isReturningSqlSupported()
isReturningSqlSupported(drv) == drv \in {"postgres", "oracle", "mssql"}

\* ColumnMetadata of an insert target
InsertCol(name, primary, generated, insert) ==
    [isColumn |-> TRUE, propertyPath |-> name, databaseName |-> name,
     isPrimary |-> primary, isGenerated |-> generated,
     generationStrategy |-> IF generated THEN "increment" ELSE "none",
     isInsert |-> insert]

\* a raw object key used as a column
RawKey(key) ==
    [isColumn |-> FALSE, propertyPath |-> key, databaseName |-> key,
     isPrimary |-> FALSE, isGenerated |-> FALSE,
     generationStrategy |-> "none", isInsert |-> TRUE]

\* expressionMap.mainAlias of the insert builder: a bare table, an entity
\* with an auto-increment key, a plain and a non-insertable column, and an
\* entity whose only column is its auto-increment key
InsertTargets ==
    { [hasMetadata |-> FALSE, tableName |-> "t", columns |-> <<>>],
      [hasMetadata |-> TRUE, tableName |-> "item",
       columns |-> << InsertCol("id", TRUE, TRUE, TRUE),
                      InsertCol("name", FALSE, FALSE, TRUE),
                      InsertCol("secret", FALSE, FALSE, FALSE) >>],
      [hasMetadata |-> TRUE, tableName |-> "counter",
       columns |-> << InsertCol("id", TRUE, TRUE, TRUE) >>] }

\* one entry of an object literal, in Object.keys order
KV(key, value) == [key |-> key, value |-> value]

\* valueSet[key]
ValueOf(valueSet, key) ==
    IF \E i \in DOMAIN valueSet : valueSet[i].key = key
    THEN valueSet[CHOOSE i \in DOMAIN valueSet : valueSet[i].key = key].value
    ELSE Undefined

\* Object.keys(valueSet)
ObjectKeys(valueSet) == [i \in DOMAIN valueSet |-> valueSet[i].key]

\* Array.prototype.join(separator) of texts
RECURSIVE JoinWith(_, _)
JoinWith(texts, separator) ==
    IF Len(texts) = 0 THEN ""
    ELSE IF Len(texts) = 1 THEN texts[1]
         ELSE texts[1] \o separator \o JoinWith(Tail(texts), separator)

\* String.prototype.trim()
RECURSIVE trim(_)
trim(text) ==
    IF Len(text) = 0 THEN text
    ELSE IF SubSeq(text, 1, 1) = " " THEN trim(SubSeq(text, 2, Len(text)))
         ELSE IF SubSeq(text, Len(text), Len(text)) = " "
              THEN trim(SubSeq(text, 1, Len(text) - 1))
              ELSE text

\* nativeParameters[paramName] = value on an object literal: an existing key
\* keeps its position and takes the new value, a new key goes last
ParamPut(nativeParameters, paramName, value) ==
    IF \E i \in DOMAIN nativeParameters : nativeParameters[i].key = paramName
    THEN [i \in DOMAIN nativeParameters |->
            IF nativeParameters[i].key = paramName
            THEN KV(paramName, value) ELSE nativeParameters[i]]
    ELSE Append(nativeParameters, KV(paramName, value))

\* the QueryExpressionMap of a fresh insert builder on a target
NewInsertMap(mainAlias) ==
    [mainAlias |-> mainAlias, valuesSet |-> Undefined, insertColumns |-> <<>>,
     onIgnore |-> FALSE, onConflict |-> "", onUpdate |-> Undefined,
     returning |-> "", updateEntity |-> TRUE, extraReturningColumns |-> <<>>,
     nativeParameters |-> <<>>]

(***************************************************************************)
(* InsertQueryBuilder                                                      *)
(***************************************************************************)
InsertValuesMissingError == [t |-> "error", name |-> "InsertValuesMissingError"]

\* mutant: getValueSets() never throws
ValueSetsNeverMissing(map) == FALSE

\* getValueSets() throws
ValueSetsMissing(map) == map.valuesSet.t \notin {"list", "object"}

\* what getValueSets() returns when it does not throw
getValueSets(map) ==
    IF map.valuesSet.t = "list" THEN map.valuesSet.l
    ELSE IF map.valuesSet.t = "object" THEN <<map.valuesSet.v>> ELSE <<>>

\* [...new Set(allObjectKeys)]: first appearance order
RECURSIVE Unique(_, _)
Unique(keys, seen) ==
    IF Len(keys) = 0 THEN seen
    ELSE Unique(Tail(keys),
                IF Head(keys) \in SeqToSet(seen) THEN seen
                ELSE Append(seen, Head(keys)))

RECURSIVE AllObjectKeys(_)
AllObjectKeys(valueSets) ==
    IF Len(valueSets) = 0 THEN <<>>
    ELSE ObjectKeys(Head(valueSets)) \o AllObjectKeys(Tail(valueSets))

\* mutant: the insert filter without the isInsert flag
IsInsertedColumnUnfiltered(drv, map, column) ==
    IF Len(map.insertColumns) > 0
    THEN column.propertyPath \in SeqToSet(map.insertColumns)
    ELSE TRUE

\* mutant: the auto-increment column left out on every driver
IsInsertedColumnNoIncrement(drv, map, column) ==
    IF Len(map.insertColumns) > 0
    THEN column.propertyPath \in SeqToSet(map.insertColumns)
    ELSE IF ~column.isInsert THEN FALSE
         ELSE ~(column.isGenerated /\ column.generationStrategy = "increment")

\* the filter of getInsertedColumnsOrKeys on a metadata column
IsInsertedColumn(drv, map, column) ==
    IF Len(map.insertColumns) > 0
    THEN column.propertyPath \in SeqToSet(map.insertColumns)
    ELSE IF ~column.isInsert THEN FALSE
         ELSE IF /\ column.isGenerated
                 /\ column.generationStrategy = "increment"
                 /\ drv \notin {"oracle", "sqlite", "mysql"}
              THEN FALSE
              ELSE TRUE

getInsertedColumnsOrKeys(drv, map) ==
    IF map.mainAlias.hasMetadata
    THEN SelectSeq(map.mainAlias.columns,
                   LAMBDA column : IsInsertedColumn(drv, map, column))
    ELSE IF Len(map.insertColumns) > 0
         THEN [i \in DOMAIN map.insertColumns |-> RawKey(map.insertColumns[i])]
         ELSE LET keys == Unique(AllObjectKeys(getValueSets(map)), <<>>)
              IN [i \in DOMAIN keys |-> RawKey(keys[i])]

createColumnNamesExpression(drv, map) ==
    LET columns == getInsertedColumnsOrKeys(drv, map)
    IN JoinWith([i \in DOMAIN columns |-> escape(drv, columns[i].databaseName)],
                ", ")

\* the createParamExpression closure of createValuesExpression; st carries
\* nativeParameters and parametersCount
createParamExpression(drv, st, valueSetIndex, columnName, value) ==
    LET paramName == "i" \o ToString(valueSetIndex) \o "_" \o columnName
    IN [expression |-> createParameter(drv, paramName, st.parametersCount),
        nativeParameters |-> ParamPut(st.nativeParameters, paramName, value),
        parametersCount |-> st.parametersCount + 1]

\* QueryBuilder.createColumnValuePersistExpression(column, value, createParam)
createColumnValuePersistExpression(drv, st, valueSetIndex, column, value) ==
    IF value.t = "function"
    THEN [expression |-> value.v, nativeParameters |-> st.nativeParameters,
          parametersCount |-> st.parametersCount]
    ELSE IF value.t = "null" /\ drv = "sap"
         THEN [expression |-> "NULL", nativeParameters |-> st.nativeParameters,
               parametersCount |-> st.parametersCount]
         ELSE createParamExpression(drv, st, valueSetIndex,
                                    column.databaseName, value)

\* columnsOrKeys.map(...) of one value set, columns i.. onwards
\* column ? column.getEntityValue(valueSet) : valueSet[columnOrKey]
ColumnValue(column, valueSet) ==
    ValueOf(valueSet, IF column.isColumn THEN column.propertyPath
                      ELSE column.databaseName)

RECURSIVE ColumnExpressionsFrom(_, _, _, _, _, _),
          ColumnExpressionsAfter(_, _, _, _, _, _)
ColumnExpressionsFrom(i, columnsOrKeys, valueSet, valueSetIndex, drv, st) ==
    IF i > Len(columnsOrKeys)
    THEN [expressions |-> <<>>, nativeParameters |-> st.nativeParameters,
          parametersCount |-> st.parametersCount]
    ELSE ColumnExpressionsAfter(i, columnsOrKeys, valueSet, valueSetIndex, drv,
            createColumnValuePersistExpression(drv, st, valueSetIndex,
                columnsOrKeys[i], ColumnValue(columnsOrKeys[i], valueSet)))

ColumnExpressionsAfter(i, columnsOrKeys, valueSet, valueSetIndex, drv, cell) ==
    [ColumnExpressionsFrom(i + 1, columnsOrKeys, valueSet, valueSetIndex, drv, cell)
        EXCEPT !.expressions = <<cell.expression>> \o @]

\* the text of one value set's tuple
TupleText(drv, valueSets, columnExpressions) ==
    IF drv = "oracle" /\ Len(valueSets) > 1
    THEN "SELECT " \o JoinWith(columnExpressions, ", ") \o " FROM DUAL"
    ELSE "(" \o JoinWith(columnExpressions, ", ") \o ")"

\* the tuple of a value set with no column expressions, filtered out below
NoTuple == [none |-> TRUE, cells |-> <<>>]

\* mutant: the empty tuples are not filtered out
TupleAlwaysKept(tuple) == TRUE

\* .filter(expression => expression !== null)
TupleKept(tuple) == ~tuple.none

\* valueSets.map(...) from value set k onwards; tuples keeps the cells of
\* every value set, NoTuple for those with no columns
\* if (columnExpressions.length === 0) return null
TupleOf(columnExpressions) ==
    IF Len(columnExpressions) = 0 THEN NoTuple
    ELSE [none |-> FALSE, cells |-> columnExpressions]

RECURSIVE ValueSetExpressionsFrom(_, _, _, _, _),
          ValueSetExpressionsAfter(_, _, _, _, _)
ValueSetExpressionsFrom(k, valueSets, columnsOrKeys, drv, st) ==
    IF k > Len(valueSets)
    THEN [tuples |-> <<>>, nativeParameters |-> st.nativeParameters,
          parametersCount |-> st.parametersCount]
    ELSE ValueSetExpressionsAfter(k, valueSets, columnsOrKeys, drv,
            ColumnExpressionsFrom(1, columnsOrKeys, valueSets[k], k - 1, drv, st))

ValueSetExpressionsAfter(k, valueSets, columnsOrKeys, drv, row) ==
    [ValueSetExpressionsFrom(k + 1, valueSets, columnsOrKeys, drv, row)
        EXCEPT !.tuples = <<TupleOf(row.expressions)>> \o @]

\* valueSetExpressions.join(...)
JoinTuples(drv, valueSets, valueSetExpressions) ==
    IF drv = "oracle" /\ Len(valueSets) > 1
    THEN JoinWith(valueSetExpressions, " UNION ALL ")
    ELSE JoinWith(valueSetExpressions, ", ")

\* the joined text, with the cells it was joined from
ValuesExpressionOf(drv, valueSets, kept, nativeParameters) ==
    [text |-> JoinTuples(drv, valueSets,
                [i \in DOMAIN kept |-> TupleText(drv, valueSets, kept[i].cells)]),
     tuples |-> [i \in DOMAIN kept |-> kept[i].cells],
     nativeParameters |-> nativeParameters]

FilterTuples(drv, valueSets, mapped) ==
    ValuesExpressionOf(drv, valueSets, SelectSeq(mapped.tuples, TupleKept),
                       mapped.nativeParameters)

ValuesExpressionOver(drv, map, valueSets, columnsOrKeys) ==
    FilterTuples(drv, valueSets,
        ValueSetExpressionsFrom(1, valueSets, columnsOrKeys, drv,
            [nativeParameters |-> map.nativeParameters,
             parametersCount |-> Len(map.nativeParameters)]))

createValuesExpression(drv, map) ==
    ValuesExpressionOver(drv, map, getValueSets(map),
                         getInsertedColumnsOrKeys(drv, map))

\* text of a property that may be undefined, as string concatenation gives it
TextOf(value) == IF value.t = "undefined" THEN "undefined" ELSE value.v

\* ReturningResultsEntityUpdator.getInsertionReturningColumns()
getInsertionReturningColumns(drv, map) ==
    IF isReturningSqlSupported(drv)
    THEN SelectSeq(map.mainAlias.columns, LAMBDA column : column.isGenerated)
    ELSE <<>>

\* QueryBuilder.createReturningExpression()
createReturningExpression(drv, map) ==
    IF map.returning # "" THEN map.returning
    ELSE IF Len(map.extraReturningColumns) > 0 /\ isReturningSqlSupported(drv)
         THEN JoinWith([i \in DOMAIN map.extraReturningColumns |->
                          (IF drv = "mssql" THEN "INSERTED." ELSE "")
                          \o escape(drv, map.extraReturningColumns[i].databaseName)],
                       ", ")
              \o (IF drv = "mssql" THEN " INTO @OutputTable" ELSE "")
         ELSE ""

\* QueryBuilder.getTableName(this.getMainTableName())
getTableName(drv, map) == escape(drv, map.mainAlias.tableName)

\* the conflict clauses of createInsertExpression
ConflictClauses(drv, map) ==
    IF drv \in {"postgres", "sqlite"}
    THEN (IF map.onIgnore THEN " ON CONFLICT DO NOTHING " ELSE "")
         \o (IF map.onConflict # "" THEN " ON CONFLICT " \o map.onConflict ELSE "")
         \o (IF map.onUpdate.t = "undefined" THEN ""
             ELSE (IF map.onUpdate.columns.t # "undefined"
                   THEN " ON CONFLICT " \o TextOf(map.onUpdate.conflict)
                        \o " DO UPDATE SET " \o map.onUpdate.columns.v
                   ELSE "")
                  \o (IF map.onUpdate.overwrite.t # "undefined"
                      THEN " ON CONFLICT " \o TextOf(map.onUpdate.conflict)
                           \o " DO UPDATE SET " \o map.onUpdate.overwrite.v
                      ELSE ""))
    ELSE IF drv = "mysql" /\ map.onUpdate.t # "undefined"
         THEN (IF map.onUpdate.columns.t # "undefined"
               THEN " ON DUPLICATE KEY UPDATE " \o map.onUpdate.columns.v
               ELSE "")
              \o (IF map.onUpdate.overwrite.t # "undefined"
                  THEN " ON DUPLICATE KEY UPDATE " \o map.onUpdate.overwrite.v
                  ELSE "")
         ELSE ""

\* the VALUES clause of createInsertExpression
ValuesClause(drv, map, valuesExpression) ==
    IF valuesExpression # ""
    THEN IF drv = "oracle" /\ Len(getValueSets(map)) > 1
         THEN " " \o valuesExpression
         ELSE " VALUES " \o valuesExpression
    ELSE IF drv = "mysql" THEN " VALUES ()" ELSE " DEFAULT VALUES"

\* the text createInsertExpression joins from its parts, with the parts
\* and the native parameters createValuesExpression left behind
InsertExpressionOf(drv, map, tableName, valuesExpression, returningExpression, columnsExpression, values) ==
    [sql |->
        "INSERT "
        \o (IF drv = "mysql" /\ map.onIgnore THEN " IGNORE " ELSE "")
        \o "INTO " \o tableName
        \o (IF columnsExpression # "" THEN "(" \o columnsExpression \o ")"
            ELSE IF valuesExpression.text = "" /\ drv = "mysql" THEN "()"
                 ELSE "")
        \o (IF returningExpression # "" /\ drv = "mssql"
            THEN " OUTPUT " \o returningExpression ELSE "")
        \o values
        \o ConflictClauses(drv, map)
        \o (IF returningExpression # "" /\ drv \in {"postgres", "oracle"}
            THEN " RETURNING " \o returningExpression ELSE ""),
     values |-> values,
     tuples |-> valuesExpression.tuples,
     nativeParameters |-> valuesExpression.nativeParameters]

InsertExpressionWith(drv, map, valuesExpression) ==
    InsertExpressionOf(drv, map, getTableName(drv, map), valuesExpression,
        IF drv = "oracle" /\ Len(getValueSets(map)) > 1 THEN ""
        ELSE createReturningExpression(drv, map),
        createColumnNamesExpression(drv, map),
        ValuesClause(drv, map, valuesExpression.text))

createInsertExpression(drv, map) ==
    InsertExpressionWith(drv, map, createValuesExpression(drv, map))

\* QueryBuilder.createComment(): no comment was set
createComment == ""

\* getQuery()
getQuery(drv, map) ==
    [createInsertExpression(drv, map) EXCEPT !.sql = trim(createComment \o @)]

\* QueryBuilder.getQueryAndParameters(): the text and the bound values, in
\* the order the native parameters were registered
ParametersOf(nativeParameters) ==
    [i \in DOMAIN nativeParameters |-> nativeParameters[i].value]

\* new InsertResult()
NewInsertResult ==
    [t |-> "InsertResult", identifiers |-> <<>>, generatedMaps |-> <<>>,
     raw |-> Undefined]

\* mutant: execute() without its early return
NeverEmptyInsert(map) == FALSE

\* execute(): the value sets are an explicit empty array
IsEmptyInsert(map) == Len(getValueSets(map)) = 0

NoStatement == [none |-> TRUE]
NoOutcome == [t |-> "none"]

\* the record of the calls made on a builder; a specification that
\* states nothing of them leaves it off
Unrecorded == [recording |-> FALSE, log |-> <<>>]
Recording == [recording |-> TRUE, log |-> <<>>]
Call(name, argument) == [call |-> name, argument |-> argument]
Logged(record, call) ==
    IF record.recording THEN [record EXCEPT !.log = Append(@, call)]
    ELSE record

(***************************************************************************)
(* The caller: the execution collaborator returns the rows, then the       *)
(* whole row set is hydrated                                               *)
(***************************************************************************)
\* the relation-id side query of loadRelationIdAndMap("p.postRef", "p.post")
LinkPostIds(results) ==
    [relationIdAttribute |->
        [parentAlias |-> "p", relation |-> LinkPost,
         mapToPropertyPropertyPath |-> "postRef", disableMixedMap |-> FALSE],
     results |-> results]

\* the relation-count side queries of loadRelationCountAndMap
LinkNoteCount(results) ==
    [relationCountAttribute |->
        [parentAlias |-> "p", relation |-> LinkNotes,
         mapToPropertyPropertyName |-> "noteCount"],
     results |-> results]

PostTagCount(results) ==
    [relationCountAttribute |->
        [parentAlias |-> "p", relation |-> PostTags,
         mapToPropertyPropertyName |-> "tagCount"],
     results |-> results]

CountRows == [parentId : {One, Two}, cnt : {Str("3"), Str("5")}]

\* the relation-id side query of loadRelationIdAndMap("p.tagIds", "p.tags")
PostTagIds(results) ==
    [relationIdAttribute |->
        [parentAlias |-> "p", relation |-> PostTags,
         mapToPropertyPropertyPath |-> "tagIds", disableMixedMap |-> FALSE],
     results |-> results]

RelationIdResultsOf(s) ==
    IF s = "linkside"
    THEN {<<LinkPostIds(r)>> : r \in SeqsUpTo([postId : {One, Two}], MaxSideRows)}
    ELSE IF s = "tagids"
         THEN {<<PostTagIds(r)>> :
                 r \in SeqsUpTo([postCode : {One, Two}, tagId : {One, Two}],
                                MaxSideRows)}
         ELSE {<<>>}

RelationCountResultsOf(s) ==
    IF s = "linkside"
    THEN {<<LinkNoteCount(r)>> :
            r \in SeqsUpTo([parentId : {One}, cnt : {Str("3")}], MaxSideRows)}
    ELSE IF s = "counts"
         THEN {<<PostTagCount(r)>> : r \in SeqsUpTo(CountRows, MaxSideRows)}
         ELSE {<<>>}

HydrateInit ==
    /\ pc = "rows"
    /\ scn \in Scenarios
    /\ expressionMap = ExpressionMapOf(scn)
    /\ rawResults = <<>>
    /\ rawRelationIdResults \in RelationIdResultsOf(scn)
    /\ rawRelationCountResults \in RelationCountResultsOf(scn)
    /\ entities = <<>>
    /\ driver = "postgres"
    /\ statement = NoStatement
    /\ sent = <<>>
    /\ events = <<>>
    /\ outcome = NoOutcome
    /\ invoked = Unrecorded

\* one more row of the result set arrives
ReceiveRow ==
    /\ pc = "rows"
    /\ Len(rawResults) < MaxRows
    /\ \E row \in RowsOf(scn) : rawResults' = Append(rawResults, row)
    /\ UNCHANGED <<pc, scn, expressionMap, rawRelationIdResults,
                   rawRelationCountResults, entities, ivars>>

\* the full row set is in: transform(rawResults, mainAlias)
Hydrate ==
    /\ pc = "rows"
    /\ entities' = transform(rawResults, expressionMap.mainAlias)
    /\ pc' = "hydrated"
    /\ UNCHANGED <<scn, expressionMap, rawResults, rawRelationIdResults,
                   rawRelationCountResults, ivars>>

vars == <<pc, hvars, ivars>>

HydrateNext == ReceiveRow \/ Hydrate

Hydration == HydrateInit /\ [][HydrateNext]_vars

(***************************************************************************)
(* The caller of the insert builder: configuration calls, then getQuery()  *)
(* or execute(), whose steps are the awaited calls of QueryBuilder.execute *)
(***************************************************************************)
\* the value-set rows a caller passes to values()
InsertRows ==
    { <<>>,
      <<KV("id", Num("7"))>>,
      <<KV("name", Str("a"))>>,
      <<KV("name", Null)>>,
      <<KV("name", Fn("NOW()"))>>,
      <<KV("id", Num("7")), KV("name", Str("a"))>>,
      <<KV("name", Str("b")), KV("id", Num("7"))>>,
      <<KV("name", Str("a")), KV("secret", Str("s"))>> }

ValuesInputs ==
    {Obj(row) : row \in InsertRows}
        \cup {List(rows) : rows \in SeqsUpTo(InsertRows, MaxValueSets)}

\* the column lists a caller passes to into()
ColumnInputs == {<<>>, <<"name">>, <<"id", "name">>, <<"name", "secret">>}

\* the parts of the expression map and of the hydration state the insert
\* builder never touches
InsertFrame ==
    UNCHANGED <<scn, rawResults, rawRelationIdResults, rawRelationCountResults,
                entities, driver, invoked>>

InsertInit ==
    /\ pc = "building"
    /\ scn = "insert"
    /\ driver \in Drivers
    /\ \E mainAlias \in InsertTargets : expressionMap = NewInsertMap(mainAlias)
    /\ rawResults = <<>>
    /\ rawRelationIdResults = <<>>
    /\ rawRelationCountResults = <<>>
    /\ entities = <<>>
    /\ statement = NoStatement
    /\ sent = <<>>
    /\ events = <<>>
    /\ outcome = NoOutcome
    /\ invoked = Unrecorded

\* into(entityTarget, columns)
Into ==
    /\ pc = "building"
    /\ \E mainAlias \in InsertTargets, columns \in ColumnInputs :
          expressionMap' = [expressionMap EXCEPT !.mainAlias = mainAlias,
                                                 !.insertColumns = columns]
    /\ UNCHANGED <<pc, statement, sent, events, outcome>>
    /\ InsertFrame

\* values(values)
Values ==
    /\ pc = "building"
    /\ \E values \in ValuesInputs :
          expressionMap' = [expressionMap EXCEPT !.valuesSet = values]
    /\ UNCHANGED <<pc, statement, sent, events, outcome>>
    /\ InsertFrame

\* the builder after a text was built from the map: the statement is kept
\* and the map holds the native parameters registered on the way
Built(map, built) ==
    /\ statement' = [sql |-> built.sql, values |-> built.values,
                     tuples |-> built.tuples]
    /\ expressionMap' = [map EXCEPT !.nativeParameters = built.nativeParameters]

\* getQuery()
GetQuery ==
    /\ pc = "building"
    /\ IF ValueSetsMissing(expressionMap)
       THEN /\ outcome' = InsertValuesMissingError
            /\ pc' = "getQueryFailed"
            /\ UNCHANGED <<expressionMap, statement>>
       ELSE /\ Built(expressionMap, getQuery(driver, expressionMap))
            /\ outcome' = Str(statement'.sql)
            /\ pc' = "built"
    /\ UNCHANGED <<sent, events>>
    /\ InsertFrame

\* execute(), up to the first awaited call of QueryBuilder.execute
Execute ==
    /\ pc = "building"
    /\ IF ValueSetsMissing(expressionMap)
       THEN /\ outcome' = InsertValuesMissingError
            /\ pc' = "executeFailed"
       ELSE IF IsEmptyInsert(expressionMap)
            THEN /\ outcome' = NewInsertResult
                 /\ pc' = "done"
            ELSE /\ outcome' = outcome
                 /\ pc' = "before"
    /\ UNCHANGED <<expressionMap, statement, sent, events>>
    /\ InsertFrame

\* executeBeforeQueryBroadcast
ExecuteBeforeQueryBroadcast ==
    /\ pc = "before"
    /\ LET valueSets == getValueSets(expressionMap)
       IN events' = events \o [i \in DOMAIN valueSets |->
                                [event |-> "BeforeInsert", entity |-> valueSets[i]]]
    /\ pc' = "inside"
    /\ UNCHANGED <<expressionMap, statement, sent, outcome>>
    /\ InsertFrame

\* updateEntity === true && mainAlias.hasMetadata
IsUpdatingEntity(map) == map.updateEntity /\ map.mainAlias.hasMetadata

\* the extraReturningColumns executeInsideTransaction leaves in the map
ReturningColumnsOf(drv, map) ==
    IF IsUpdatingEntity(map) /\ ~(Len(getValueSets(map)) > 1 /\ drv = "oracle")
    THEN getInsertionReturningColumns(drv, map)
    ELSE map.extraReturningColumns

\* driver.buildTableVariableDeclaration("@OutputTable", columns)
buildTableVariableDeclaration(drv, columns) ==
    "DECLARE @OutputTable TABLE ("
    \o JoinWith([i \in DOMAIN columns |-> escape(drv, columns[i].databaseName)], ", ")
    \o ")"

\* [declareSql, insertSql, selectOutputSql].filter(sql => sql != null)
Statements(drv, map, insertSql) ==
    IF IsUpdatingEntity(map) /\ Len(map.extraReturningColumns) > 0 /\ drv = "mssql"
    THEN <<buildTableVariableDeclaration(drv, map.extraReturningColumns),
           insertSql, "SELECT * FROM @OutputTable">>
    ELSE <<insertSql>>

\* queryRunner.query(statements.join(";\n\n"), parameters)
SendInsert(map, built) ==
    /\ Built(map, built)
    /\ sent' = Append(sent,
                  [query |-> JoinWith(Statements(driver, map, built.sql), ";\n\n"),
                   parameters |-> ParametersOf(built.nativeParameters)])

BuildAndSend(map) == SendInsert(map, getQuery(driver, map))

RunInsert(extraReturningColumns) ==
    BuildAndSend([expressionMap EXCEPT
                    !.extraReturningColumns = extraReturningColumns])

\* executeInsideTransaction
ExecuteInsideTransaction ==
    /\ pc = "inside"
    /\ RunInsert(ReturningColumnsOf(driver, expressionMap))
    /\ pc' = "after"
    /\ UNCHANGED <<events, outcome>>
    /\ InsertFrame

\* executeAfterQueryBroadcast, and execute() returns the InsertResult
ExecuteAfterQueryBroadcast ==
    /\ pc = "after"
    /\ LET valueSets == getValueSets(expressionMap)
       IN events' = events \o [i \in DOMAIN valueSets |->
                                [event |-> "AfterInsert", entity |-> valueSets[i]]]
    /\ outcome' = [NewInsertResult EXCEPT !.raw = Str("raw")]
    /\ pc' = "done"
    /\ UNCHANGED <<expressionMap, statement, sent>>
    /\ InsertFrame

InsertNext ==
    \/ Into
    \/ Values
    \/ GetQuery
    \/ Execute
    \/ ExecuteBeforeQueryBroadcast
    \/ ExecuteInsideTransaction
    \/ ExecuteAfterQueryBroadcast

Insertion == InsertInit /\ [][InsertNext]_vars

(***************************************************************************)
(* Collaborators of the update and delete builders                         *)
(***************************************************************************)
\* Driver.hasIndexedParameters(): the placeholder carries its index
hasIndexedParameters(drv) == drv \in {"postgres", "oracle", "mssql"}

\* driver.config.returningClause
returningClause(drv) ==
    CASE drv = "mssql"                -> "output"
      [] drv \in {"postgres", "oracle"} -> "returning"
      [] OTHER                        -> "none"

\* ColumnMetadata of an update target
UpdateCol(propertyName, databaseName, update) ==
    [propertyPath |-> propertyName, databaseName |-> databaseName,
     isUpdate |-> update]

\* expressionMap.mainAlias of the update and delete builders: a bare table,
\* an entity with a version and an update-date column and a column that is
\* not updatable, an entity without version and update-date columns, and an
\* entity whose version column is itself not updatable
UpdateTargets ==
    { [hasMetadata |-> FALSE, tableName |-> "t", columns |-> <<>>,
       versionColumn |-> Undefined, updateDateColumn |-> Undefined],
      [hasMetadata |-> TRUE, tableName |-> "doc",
       columns |-> << UpdateCol("name", "name", TRUE),
                      UpdateCol("locked", "locked", FALSE),
                      UpdateCol("version", "version", TRUE),
                      UpdateCol("updatedAt", "updated_at", TRUE) >>,
       versionColumn |-> UpdateCol("version", "version", TRUE),
       updateDateColumn |-> UpdateCol("updatedAt", "updated_at", TRUE)],
      [hasMetadata |-> TRUE, tableName |-> "note",
       columns |-> << UpdateCol("name", "name", TRUE),
                      UpdateCol("locked", "locked", FALSE) >>,
       versionColumn |-> Undefined, updateDateColumn |-> Undefined],
      [hasMetadata |-> TRUE, tableName |-> "audit",
       columns |-> << UpdateCol("name", "name", TRUE),
                      UpdateCol("version", "version", FALSE) >>,
       versionColumn |-> UpdateCol("version", "version", FALSE),
       updateDateColumn |-> Undefined] }

\* the QueryExpressionMap of a fresh update or delete builder on a target
NewModifyMap(mainAlias) ==
    [mainAlias |-> mainAlias, valuesSet |-> Undefined, wheres |-> <<>>,
     orderBys |-> <<>>, limit |-> Undefined, returning |-> "",
     updateEntity |-> TRUE, extraReturningColumns |-> <<>>,
     whereEntities |-> <<>>, nativeParameters |-> <<>>]

\* metadata.findColumnWithPropertyPath(propertyPath), for a path that has one
ColumnOf(metadata, propertyPath) ==
    metadata.columns[CHOOSE i \in DOMAIN metadata.columns :
                        metadata.columns[i].propertyPath = propertyPath]

ColumnsOfKeys(metadata, keys) ==
    [i \in DOMAIN keys |-> ColumnOf(metadata, keys[i])]

\* metadata.extractColumnsInEntity(valuesSet): the columns the keys of the
\* object name, in the order of the keys
extractColumnsInEntity(metadata, valuesSet) ==
    ColumnsOfKeys(metadata,
        SelectSeq(ObjectKeys(valuesSet),
                  LAMBDA key : \E i \in DOMAIN metadata.columns :
                                  metadata.columns[i].propertyPath = key))

\* Object.assign(target, source): the keys of target keep their position
\* and take the value source has for them, the other keys of source follow
RECURSIVE ObjectAssign(_, _)
ObjectAssign(target, source) ==
    IF Len(source) = 0 THEN target
    ELSE ObjectAssign(ParamPut(target, Head(source).key, Head(source).value),
                      Tail(source))

\* QueryBuilder.replacePropertyNames(statement)
replacePropertyNames(text) == text

\* one entry of expressionMap.wheres
WhereEntry(type, condition) == [type |-> type, condition |-> condition]

\* the text one entry gives at its index: the connective of an "and" or "or"
\* entry is written only after the first entry
WherePiece(entry, index) ==
    (IF entry.type = "and" /\ index > 1 THEN "AND "
     ELSE IF entry.type = "or" /\ index > 1 THEN "OR "
     ELSE "")
    \o replacePropertyNames(entry.condition)

\* QueryBuilder.createWhereExpressionString(): the entries joined by a blank
createWhereExpressionString(map) ==
    JoinWith([i \in DOMAIN map.wheres |-> WherePiece(map.wheres[i], i)], " ")

\* QueryBuilder.createWhereExpression() as the update text splices it
createWhereExpression(map) ==
    IF createWhereExpressionString(map) = "" THEN ""
    ELSE " WHERE " \o createWhereExpressionString(map)

\* the where expression as the delete text joins it
createWhereClause(map) ==
    IF createWhereExpressionString(map) = "" THEN ""
    ELSE "WHERE " \o createWhereExpressionString(map)

NoError == [t |-> "none"]

(***************************************************************************)
(* UpdateQueryBuilder                                                      *)
(***************************************************************************)
UpdateValuesMissingError == [t |-> "error", name |-> "UpdateValuesMissingError"]

\* getValueSet() throws: valuesSet is not an object
UpdateValueSetMissing(map) == map.valuesSet.t # "object"

\* one assignment of the SET clause: raw text of a function, NULL on sap,
\* or a parameter registered in newParameters or in nativeParameters
UpdateAssign(drv, st, name, paramName, value) ==
    IF value.t = "function"
    THEN [st EXCEPT !.fragments = Append(@, escape(drv, name) \o " = " \o value.v)]
    ELSE IF drv = "sap" /\ value.t = "null"
         THEN [st EXCEPT !.fragments = Append(@, escape(drv, name) \o " = NULL")]
         ELSE [st EXCEPT
                 !.newParameters =
                     IF ~hasIndexedParameters(drv)
                     THEN ParamPut(@, paramName, value) ELSE @,
                 !.nativeParameters =
                     IF ~hasIndexedParameters(drv)
                     THEN @ ELSE ParamPut(@, paramName, value),
                 !.fragments =
                     Append(@, escape(drv, name) \o " = "
                               \o createParameter(drv, paramName, st.parametersCount)),
                 !.parametersCount = @ + 1]

\* the forEach callback over the columns of the value set
UpdateColumn(drv, st, column, valuesSet) ==
    IF ~column.isUpdate THEN st
    ELSE UpdateAssign(drv, [st EXCEPT !.updatedColumns = Append(@, column)],
                      column.databaseName, "upd_" \o column.databaseName,
                      ValueOf(valuesSet, column.propertyPath))

RECURSIVE UpdateColumnsFrom(_, _, _, _, _)
UpdateColumnsFrom(i, columns, valuesSet, drv, st) ==
    IF i > Len(columns) THEN st
    ELSE UpdateColumnsFrom(i + 1, columns, valuesSet, drv,
                           UpdateColumn(drv, st, columns[i], valuesSet))

\* Object.keys(valuesSet).map(...) without metadata
RECURSIVE UpdateKeysFrom(_, _, _, _)
UpdateKeysFrom(i, valuesSet, drv, st) ==
    IF i > Len(valuesSet) THEN st
    ELSE UpdateKeysFrom(i + 1, valuesSet, drv,
                        UpdateAssign(drv, st, valuesSet[i].key, valuesSet[i].key,
                                     valuesSet[i].value))

\* mutant: the version increment appended whatever the caller updated
TouchVersionAlways(drv, st, metadata) ==
    IF metadata.versionColumn # Undefined
    THEN [st EXCEPT !.fragments =
            Append(@, escape(drv, metadata.versionColumn.databaseName) \o " = "
                      \o escape(drv, metadata.versionColumn.databaseName) \o " + 1")]
    ELSE st

\* version = version + 1 when the version column was not updated
TouchVersion(drv, st, metadata) ==
    IF /\ metadata.versionColumn # Undefined
       /\ metadata.versionColumn \notin SeqToSet(st.updatedColumns)
    THEN [st EXCEPT !.fragments =
            Append(@, escape(drv, metadata.versionColumn.databaseName) \o " = "
                      \o escape(drv, metadata.versionColumn.databaseName) \o " + 1")]
    ELSE st

\* updateDate = CURRENT_TIMESTAMP when the update-date column was not updated
TouchUpdateDate(drv, st, metadata) ==
    IF /\ metadata.updateDateColumn # Undefined
       /\ metadata.updateDateColumn \notin SeqToSet(st.updatedColumns)
    THEN [st EXCEPT !.fragments =
            Append(@, escape(drv, metadata.updateDateColumn.databaseName)
                      \o " = CURRENT_TIMESTAMP")]
    ELSE st

\* updateColumnAndValues, updatedColumns, newParameters and the native
\* parameters before any assignment was computed
NoAssignments(drv, map) ==
    [fragments |-> <<>>, updatedColumns |-> <<>>, newParameters |-> <<>>,
     nativeParameters |-> map.nativeParameters,
     parametersCount |-> IF hasIndexedParameters(drv)
                         THEN Len(map.nativeParameters) ELSE 0]

\* the assignments of the SET clause
UpdateAssignments(drv, map, valuesSet) ==
    IF map.mainAlias.hasMetadata
    THEN TouchUpdateDate(drv,
            TouchVersion(drv,
                UpdateColumnsFrom(1, extractColumnsInEntity(map.mainAlias, valuesSet),
                                  valuesSet, drv, NoAssignments(drv, map)),
                map.mainAlias),
            map.mainAlias)
    ELSE UpdateKeysFrom(1, valuesSet, drv, NoAssignments(drv, map))

\* the native parameters after the SET parameters were put first
UpdateParameters(drv, st) ==
    IF ~hasIndexedParameters(drv)
    THEN ObjectAssign(st.newParameters, st.nativeParameters)
    ELSE st.nativeParameters

\* the UPDATE text around the assignments
UpdateText(drv, map, fragments, whereExpression, returningExpression) ==
    "UPDATE " \o getTableName(drv, map) \o " SET " \o JoinWith(fragments, ", ")
    \o (IF returningExpression # "" /\ drv \in {"postgres", "oracle"}
        THEN whereExpression \o " RETURNING " \o returningExpression
        ELSE IF returningExpression # "" /\ drv = "mssql"
             THEN " OUTPUT " \o returningExpression \o whereExpression
             ELSE whereExpression)

\* what createModificationExpression() does once the assignments are known:
\* it throws, or returns the text having re-written the native parameters
UpdateExpressionOf(drv, map, st) ==
    IF Len(st.fragments) <= 0
    THEN [error |-> UpdateValuesMissingError, sql |-> "", set |-> <<>>,
          nativeParameters |-> st.nativeParameters]
    ELSE [error |-> NoError,
          sql |-> UpdateText(drv, map, st.fragments, createWhereExpression(map),
                             createReturningExpression(drv, map)),
          set |-> st.fragments,
          nativeParameters |-> UpdateParameters(drv, st)]

\* UpdateQueryBuilder.createModificationExpression()
createUpdateExpression(drv, map) ==
    IF UpdateValueSetMissing(map)
    THEN [error |-> UpdateValuesMissingError, sql |-> "", set |-> <<>>,
          nativeParameters |-> map.nativeParameters]
    ELSE UpdateExpressionOf(drv, map, UpdateAssignments(drv, map, map.valuesSet.v))

(***************************************************************************)
(* DeleteQueryBuilder                                                      *)
(***************************************************************************)
\* query.push(...) of a clause that is there
Pushed(keyword, expression) ==
    IF expression = "" THEN <<>>
    ELSE IF keyword = "" THEN <<expression>> ELSE <<keyword, expression>>

\* mutant: the OUTPUT clause pushed after the WHERE clause
DeletePartsOutputLast(drv, tableName, whereExpression, returningExpression) ==
    <<"DELETE FROM", tableName>>
    \o Pushed("", whereExpression)
    \o (IF returningClause(drv) = "output"
        THEN Pushed("OUTPUT", returningExpression) ELSE <<>>)
    \o (IF returningClause(drv) = "returning"
        THEN Pushed("RETURNING", returningExpression) ELSE <<>>)

DeleteParts(drv, tableName, whereExpression, returningExpression) ==
    <<"DELETE FROM", tableName>>
    \o (IF returningClause(drv) = "output"
        THEN Pushed("OUTPUT", returningExpression) ELSE <<>>)
    \o Pushed("", whereExpression)
    \o (IF returningClause(drv) = "returning"
        THEN Pushed("RETURNING", returningExpression) ELSE <<>>)

\* DeleteQueryBuilder.createModificationExpression()
createDeleteExpression(drv, map) ==
    [error |-> NoError,
     sql |-> JoinWith(DeleteParts(drv, getTableName(drv, map),
                                  createWhereClause(map),
                                  createReturningExpression(drv, map)), " "),
     set |-> <<>>,
     nativeParameters |-> map.nativeParameters]

(***************************************************************************)
(* ModificationQueryBuilder                                                *)
(***************************************************************************)
LimitOnUpdateNotSupportedError ==
    [t |-> "error", name |-> "LimitOnUpdateNotSupportedError"]

ReturningStatementNotSupportedError ==
    [t |-> "error", name |-> "ReturningStatementNotSupportedError"]

\* createOrderByExpression()
createOrderByExpression(map) ==
    IF Len(map.orderBys) > 0
    THEN " ORDER BY "
         \o JoinWith([i \in DOMAIN map.orderBys |->
                        replacePropertyNames(map.orderBys[i].key) \o " "
                        \o map.orderBys[i].value], ", ")
    ELSE ""

\* if (limit): the limit is a number other than 0
IsLimited(map) == map.limit.t = "number" /\ map.limit.v # "0"

\* createLimitExpression() throws
LimitFails(drv, map) == IsLimited(map) /\ drv # "mysql"

\* createLimitExpression() when it returns
createLimitExpression(drv, map) ==
    IF IsLimited(map) THEN " LIMIT " \o map.limit.v ELSE ""

\* the abstract createModificationExpression() of the builder at hand
createModificationExpression(drv, kind, map) ==
    IF kind = "update" THEN createUpdateExpression(drv, map)
    ELSE createDeleteExpression(drv, map)

\* getQuery() after createModificationExpression(): the error it threw, the
\* error of the limit, or the trimmed text; the native parameters stay as
\* createModificationExpression() left them
ModificationQueryOf(drv, map, expression) ==
    IF expression.error # NoError THEN expression
    ELSE IF LimitFails(drv, map)
         THEN [expression EXCEPT !.error = LimitOnUpdateNotSupportedError,
                                 !.sql = "", !.set = <<>>]
         ELSE [expression EXCEPT
                 !.sql = trim(createComment \o @ \o createOrderByExpression(map)
                              \o createLimitExpression(drv, map))]

\* ModificationQueryBuilder.getQuery()
getModificationQuery(drv, kind, map) ==
    ModificationQueryOf(drv, map, createModificationExpression(drv, kind, map))

(***************************************************************************)
(* The caller of the update and delete builders: configuration calls, then *)
(* getQuery()                                                              *)
(***************************************************************************)
\* the value sets a caller passes to set()
UpdateRows ==
    { <<>>,
      <<KV("name", Str("x"))>>,
      <<KV("locked", Str("y"))>>,
      <<KV("name", Fn("UPPER(name)"))>>,
      <<KV("name", Null)>>,
      <<KV("version", Num("5")), KV("name", Str("x"))>>,
      <<KV("name", Str("x")), KV("updatedAt", Fn("NOW()"))>> }

\* the conditions a caller passes to where()
WhereInputs == {"", "id = 1"}

\* the parameters a predicate registers natively before the text is built
PredicateParameters ==
    { KV("id_0", Num("1")), KV("name", Str("old")), KV("upd_name", Str("old")) }

\* the arguments of returning() and output()
ReturningInputs == {"id", "*"}

\* the arguments of limit()
LimitInputs == {Undefined, Num("0"), Num("2")}

\* the arguments of orderBy()
OrderByInputs == {<<>>, <<KV("name", "DESC")>>}

\* the parts of the state the update and delete builders never touch
BuilderFrame ==
    UNCHANGED <<scn, rawResults, rawRelationIdResults, rawRelationCountResults,
                entities, driver, sent, events>>

\* the same for the calls that add no condition
ModifyFrame == BuilderFrame /\ UNCHANGED invoked

\* a new update or delete builder
ModifyStart ==
    /\ pc = "building"
    /\ scn \in {"update", "delete"}
    /\ driver \in Drivers
    /\ \E mainAlias \in UpdateTargets : expressionMap = NewModifyMap(mainAlias)
    /\ rawResults = <<>>
    /\ rawRelationIdResults = <<>>
    /\ rawRelationCountResults = <<>>
    /\ entities = <<>>
    /\ statement = NoStatement
    /\ sent = <<>>
    /\ events = <<>>
    /\ outcome = NoOutcome

ModifyInit == ModifyStart /\ invoked = Unrecorded

\* set(values)
UpdateSet ==
    /\ pc = "building"
    /\ scn = "update"
    /\ \E values \in UpdateRows :
          expressionMap' = [expressionMap EXCEPT !.valuesSet = Obj(values)]
    /\ UNCHANGED <<pc, statement, outcome>>
    /\ ModifyFrame

\* QueryBuilder.computeWhereParameter(where), for a condition given as text
computeWhereParameter(where) == where

\* mutant: where() that keeps the entries the list holds
WheresAfterWhereKept(wheres, where) ==
    IF computeWhereParameter(where) # ""
    THEN Append(wheres, WhereEntry("simple", computeWhereParameter(where)))
    ELSE wheres

\* where(where): the list is emptied, then holds the condition when there
\* is one
WheresAfterWhere(wheres, where) ==
    IF computeWhereParameter(where) # ""
    THEN <<WhereEntry("simple", computeWhereParameter(where))>>
    ELSE <<>>

\* andWhere(where) and orWhere(where): wheres.push
WheresAfterPush(wheres, type, where) ==
    Append(wheres, WhereEntry(type, computeWhereParameter(where)))

\* the record of the calls has room for one more
CanInvoke == invoked.recording => Len(invoked.log) < MaxCalls

\* the call of where(), whatever method made it
WhereCall(where) ==
    /\ expressionMap' = [expressionMap EXCEPT
                             !.wheres = WheresAfterWhere(@, where)]
    /\ invoked' = Logged(invoked, Call("where", where))
    /\ UNCHANGED <<pc, statement, outcome>>
    /\ BuilderFrame

\* the call of andWhere() or orWhere(), whatever method made it
PushCall(type, where) ==
    /\ expressionMap' = [expressionMap EXCEPT
                             !.wheres = WheresAfterPush(@, type, where)]
    /\ invoked' = Logged(invoked, Call(type, where))
    /\ UNCHANGED <<pc, statement, outcome>>
    /\ BuilderFrame

\* where(where)
Where ==
    /\ pc = "building"
    /\ CanInvoke
    /\ \E where \in WhereInputs : WhereCall(where)

\* setNativeParameters(parameters), as the predicate calls register theirs
SetNativeParameters ==
    /\ pc = "building"
    /\ Len(expressionMap.nativeParameters) < MaxPredicateParameters
    /\ \E parameter \in PredicateParameters :
          expressionMap' = [expressionMap EXCEPT !.nativeParameters =
                               ObjectAssign(@, <<parameter>>)]
    /\ UNCHANGED <<pc, statement, outcome>>
    /\ ModifyFrame

\* mutant: returning() without the test of the driver
ReturningCallUnchecked(returning) ==
    /\ expressionMap' = [expressionMap EXCEPT !.returning = returning]
    /\ UNCHANGED <<pc, outcome>>
    /\ UNCHANGED <<scn, rawResults, rawRelationIdResults,
                   rawRelationCountResults, entities, driver, statement, sent,
                   events, invoked>>

\* returning(returning): throws on a driver without returning support,
\* else replaces the returning specification
ReturningCall(returning) ==
    /\ IF ~isReturningSqlSupported(driver)
       THEN /\ outcome' = ReturningStatementNotSupportedError
            /\ pc' = "returningFailed"
            /\ UNCHANGED expressionMap
       ELSE /\ expressionMap' = [expressionMap EXCEPT !.returning = returning]
            /\ UNCHANGED <<pc, outcome>>
    /\ UNCHANGED <<scn, rawResults, rawRelationIdResults,
                   rawRelationCountResults, entities, driver, statement, sent,
                   events, invoked>>

\* returning(returning)
Returning ==
    /\ pc = "building"
    /\ \E returning \in ReturningInputs : ReturningCall(returning)

\* output(output): return this.returning(output)
Output ==
    /\ pc = "building"
    /\ \E output \in ReturningInputs : ReturningCall(output)

\* limit(limit)
Limit ==
    /\ pc = "building"
    /\ \E limit \in LimitInputs :
          expressionMap' = [expressionMap EXCEPT !.limit = limit]
    /\ UNCHANGED <<pc, statement, outcome>>
    /\ ModifyFrame

\* orderBy(sort, order) and orderBy()
OrderBy ==
    /\ pc = "building"
    /\ \E order \in OrderByInputs :
          expressionMap' = [expressionMap EXCEPT !.orderBys = order]
    /\ UNCHANGED <<pc, statement, outcome>>
    /\ ModifyFrame

\* the builder after getQuery() ended: the native parameters are those the
\* rendering left, the text is kept or the error is handed to the caller
ModifyBuilt(map, query) ==
    /\ expressionMap' = [map EXCEPT !.nativeParameters = query.nativeParameters]
    /\ IF query.error # NoError
       THEN /\ outcome' = query.error
            /\ pc' = "getQueryFailed"
            /\ UNCHANGED statement
       ELSE /\ statement' = [sql |-> query.sql, set |-> query.set]
            /\ outcome' = Str(query.sql)
            /\ pc' = "built"

\* getQuery() of an update or delete builder
ModifyGetQuery ==
    /\ pc = "building"
    /\ ModifyBuilt(expressionMap, getModificationQuery(driver, scn, expressionMap))
    /\ ModifyFrame

ModifyNext ==
    \/ UpdateSet
    \/ Where
    \/ SetNativeParameters
    \/ Returning
    \/ Output
    \/ Limit
    \/ OrderBy
    \/ ModifyGetQuery

Modification == ModifyInit /\ [][ModifyNext]_vars

(***************************************************************************)
(* ModificationQueryBuilder: the condition calls.  The calls made are      *)
(* recorded, so that the where list can be compared with them              *)
(***************************************************************************)
\* the conditions a caller passes to andWhere() and to orWhere()
AndWhereInputs == {"", "a = 1"}
OrWhereInputs == {"b = 2"}

\* the ids a caller passes to whereInIds(), andWhereInIds(), orWhereInIds()
IdsInputs == {Num("3")}

\* QueryBuilder.createWhereIdsExpression(ids), for one plain id or the id
\* map of one entity
createWhereIdsExpression(ids) ==
    IF ids.t = "object" THEN "id = " \o ValueOf(ids.v, "id").v
    ELSE "id = " \o ids.v

\* the entities a caller passes to whereEntity(): with an id, and without
WithId(id) == Obj(<<KV("id", Num(id)), KV("name", Str("n"))>>)
WithoutId == Obj(<<KV("name", Str("n"))>>)

WhereEntityInputs ==
    { <<WithId("1")>>, <<WithId("1"), WithId("2")>>, <<WithoutId>>,
      <<WithId("1"), WithoutId>> }

\* EntityMetadata.getEntityIdMap(entity): the primary column values of the
\* entity, undefined when one is missing
getEntityIdMap(entity) ==
    IF ValueOf(entity.v, "id") \in {Undefined, Null} THEN Undefined
    ELSE Obj(<<KV("id", ValueOf(entity.v, "id"))>>)

WhereEntityMetadataError ==
    [t |-> "error", name |-> "Error",
     message |-> ".whereEntity method can only be used on queries which update real entity table."]

WhereEntityIdsError ==
    [t |-> "error", name |-> "Error",
     message |-> "Provided entity does not have ids set, cannot perform operation."]

\* entities.forEach of whereEntity(): orWhereInIds of each id map, up to the
\* entity without one, where the loop throws
RECURSIVE WhereEntitiesFrom(_, _, _)
WhereEntitiesFrom(i, given, wheres) ==
    IF i > Len(given) THEN [wheres |-> wheres, thrown |-> NoError]
    ELSE IF getEntityIdMap(given[i]) = Undefined
         THEN [wheres |-> wheres, thrown |-> WhereEntityIdsError]
         ELSE WhereEntitiesFrom(i + 1, given,
                  WheresAfterPush(wheres, "or",
                      createWhereIdsExpression(getEntityIdMap(given[i]))))

\* whereEntity(entity) on an expression map: the map it leaves and the error
\* it throws
WhereEntityOf(map, given) ==
    IF ~map.mainAlias.hasMetadata
    THEN [map |-> map, thrown |-> WhereEntityMetadataError]
    ELSE LET looped == WhereEntitiesFrom(1, given, <<>>)
         IN  IF looped.thrown # NoError
             THEN [map |-> [map EXCEPT !.wheres = looped.wheres],
                   thrown |-> looped.thrown]
             ELSE [map |-> [map EXCEPT !.wheres = looped.wheres,
                                       !.whereEntities = given],
                   thrown |-> NoError]

ConditionsInit == ModifyStart /\ driver = "postgres" /\ invoked = Recording

\* andWhere(where)
AndWhere ==
    /\ pc = "building"
    /\ CanInvoke
    /\ \E where \in AndWhereInputs : PushCall("and", where)

\* orWhere(where)
OrWhere ==
    /\ pc = "building"
    /\ CanInvoke
    /\ \E where \in OrWhereInputs : PushCall("or", where)

\* whereInIds(ids)
WhereInIds ==
    /\ pc = "building"
    /\ CanInvoke
    /\ \E ids \in IdsInputs : WhereCall(createWhereIdsExpression(ids))

\* andWhereInIds(ids)
AndWhereInIds ==
    /\ pc = "building"
    /\ CanInvoke
    /\ \E ids \in IdsInputs : PushCall("and", createWhereIdsExpression(ids))

\* orWhereInIds(ids)
OrWhereInIds ==
    /\ pc = "building"
    /\ CanInvoke
    /\ \E ids \in IdsInputs : PushCall("or", createWhereIdsExpression(ids))

\* whereEntity(entity): the caller catches what it throws and goes on
WhereEntity ==
    /\ pc = "building"
    /\ CanInvoke
    /\ \E given \in WhereEntityInputs :
          /\ expressionMap' = WhereEntityOf(expressionMap, given).map
          /\ outcome' = WhereEntityOf(expressionMap, given).thrown
          /\ invoked' = Logged(invoked, Call("whereEntity", given))
    /\ UNCHANGED <<pc, statement>>
    /\ BuilderFrame

ConditionsNext ==
    \/ Where
    \/ AndWhere
    \/ OrWhere
    \/ WhereInIds
    \/ AndWhereInIds
    \/ OrWhereInIds
    \/ WhereEntity
    \/ ModifyGetQuery

Conditions == ConditionsInit /\ [][ConditionsNext]_vars

(***************************************************************************)
(* Every builder: the insert builder, with a second getQuery() and with    *)
(* returning(), and the update and delete builders                         *)
(***************************************************************************)
\* getQuery() called again on the insert builder
GetQueryAgain ==
    /\ pc = "built"
    /\ scn = "insert"
    /\ Built(expressionMap, getQuery(driver, expressionMap))
    /\ outcome' = Str(statement'.sql)
    /\ pc' = "rebuilt"
    /\ UNCHANGED <<sent, events>>
    /\ InsertFrame

EmissionInit == InsertInit \/ ModifyInit

EmissionNext ==
    \/ scn = "insert" /\ Into
    \/ scn = "insert" /\ Values
    \/ scn = "insert" /\ GetQuery
    \/ scn = "insert" /\ GetQueryAgain
    \/ scn = "insert" /\ Returning
    \/ scn = "insert" /\ Output
    \/ scn = "insert" /\ Execute
    \/ scn = "insert" /\ ExecuteBeforeQueryBroadcast
    \/ scn = "insert" /\ ExecuteInsideTransaction
    \/ scn = "insert" /\ ExecuteAfterQueryBroadcast
    \/ scn # "insert" /\ UpdateSet
    \/ scn # "insert" /\ Where
    \/ scn # "insert" /\ SetNativeParameters
    \/ scn # "insert" /\ Returning
    \/ scn # "insert" /\ Output
    \/ scn # "insert" /\ Limit
    \/ scn # "insert" /\ OrderBy
    \/ scn # "insert" /\ ModifyGetQuery

Emission == EmissionInit /\ [][EmissionNext]_vars

(***************************************************************************)
(* InsertQueryBuilder: conflict handling                                   *)
(***************************************************************************)
\* the statement object a caller passes to orUpdate(): columns, overwrite
\* and conflict_target, each given or not
UpdateStatement(columns, overwrite, conflict_target) ==
    [t |-> "object", columns |-> columns, overwrite |-> overwrite,
     conflict_target |-> conflict_target]

\* array.map(f).join(", ") over column names
RECURSIVE JoinMapped(_, _, _, _)
JoinMapped(names, before, between, after) ==
    IF Len(names) = 0 THEN ""
    ELSE before \o names[1] \o between \o names[1] \o after
         \o (IF Len(names) = 1 THEN ""
             ELSE ", " \o JoinMapped(Tail(names), before, between, after))

\* expressionMap.onUpdate.conflict as orUpdate() leaves it
OnUpdateConflict(update) ==
    IF update.t # "object" THEN Undefined
    ELSE IF update.conflict_target.t = "string"
         THEN Str(" ON CONSTRAINT " \o update.conflict_target.v \o " ")
         ELSE IF update.conflict_target.t = "list"
              THEN Str(" ( " \o JoinWith(update.conflict_target.l, ", ") \o " ) ")
              ELSE Undefined

\* expressionMap.onUpdate.columns as orUpdate() leaves it
OnUpdateColumns(update) ==
    IF update.t = "object" /\ update.columns.t = "list"
    THEN Str(JoinMapped(update.columns.l, "", " = :", ""))
    ELSE Undefined

\* expressionMap.onUpdate.overwrite as orUpdate() leaves it
OnUpdateOverwrite(drv, update) ==
    IF update.t = "object" /\ update.overwrite.t = "list"
    THEN IF drv = "mysql"
         THEN Str(JoinMapped(update.overwrite.l, "", " = VALUES(", ")"))
         ELSE IF drv \in {"postgres", "sqlite"}
              THEN Str(JoinMapped(update.overwrite.l, "", " = EXCLUDED.", ""))
              ELSE Undefined
    ELSE Undefined

\* expressionMap.onUpdate after orUpdate(statement)
OnUpdateOf(drv, update) ==
    [t |-> "object",
     conflict |-> OnUpdateConflict(update),
     columns |-> OnUpdateColumns(update),
     overwrite |-> OnUpdateOverwrite(drv, update)]

\* the arguments of orIgnore()
OrIgnoreInputs == BOOLEAN

\* the arguments of onConflict()
OnConflictInputs == {"(id) DO NOTHING"}

\* the arguments of orUpdate()
OrUpdateInputs ==
    { Undefined,
      UpdateStatement(List(<<"name">>), Undefined, List(<<"id">>)),
      UpdateStatement(Undefined, List(<<"name">>), Str("uq")),
      UpdateStatement(List(<<"name">>), List(<<"name">>), List(<<"id">>)),
      UpdateStatement(Undefined, List(<<"name">>), Undefined) }

\* what a configuration call of the insert builder leaves alone
ConflictFrame ==
    /\ UNCHANGED <<pc, statement, sent, events, outcome>>
    /\ InsertFrame

\* orIgnore(statement)
OrIgnore ==
    /\ pc = "building"
    /\ \E ignore \in OrIgnoreInputs :
          expressionMap' = [expressionMap EXCEPT !.onIgnore = ignore]
    /\ ConflictFrame

\* onConflict(statement)
OnConflict ==
    /\ pc = "building"
    /\ \E conflict \in OnConflictInputs :
          expressionMap' = [expressionMap EXCEPT !.onConflict = conflict]
    /\ ConflictFrame

\* orUpdate(statement)
OrUpdate ==
    /\ pc = "building"
    /\ \E update \in OrUpdateInputs :
          expressionMap' =
              [expressionMap EXCEPT !.onUpdate = OnUpdateOf(driver, update)]
    /\ ConflictFrame

UpsertNext ==
    \/ Values
    \/ OrIgnore
    \/ OnConflict
    \/ OrUpdate
    \/ GetQuery

\* the insert builder with its conflict handling calls
Upsert == InsertInit /\ [][UpsertNext]_vars

(***************************************************************************)
(* InsertQueryBuilder with the identity override of SQL Server: the text   *)
(* is joined from an array of parts and bracketed by SET IDENTITY_INSERT   *)
(***************************************************************************)
\* isOverridingAutoIncrementBehavior(column)
isOverridingAutoIncrementBehavior(map, column) ==
    /\ column.isPrimary
    /\ column.isGenerated
    /\ column.generationStrategy = "increment"
    /\ \E k \in DOMAIN getValueSets(map) :
          /\ ColumnValue(column, getValueSets(map)[k]) # Undefined
          /\ ColumnValue(column, getValueSets(map)[k]) # Null

\* the filter of getInsertedColumnsOrKeys on a metadata column, with the
\* exception made for an overridden key on SQL Server
IsInsertedColumnOverriding(drv, map, column) ==
    IF Len(map.insertColumns) > 0
    THEN column.propertyPath \in SeqToSet(map.insertColumns)
    ELSE IF ~column.isInsert THEN FALSE
         ELSE IF /\ column.isGenerated
                 /\ column.generationStrategy = "increment"
                 /\ drv \notin {"oracle", "sqlite", "mysql"}
                 /\ ~(drv = "mssql" /\ isOverridingAutoIncrementBehavior(map, column))
              THEN FALSE
              ELSE TRUE

getInsertedColumnsOrKeysOverriding(drv, map) ==
    IF map.mainAlias.hasMetadata
    THEN SelectSeq(map.mainAlias.columns,
                   LAMBDA column : IsInsertedColumnOverriding(drv, map, column))
    ELSE IF Len(map.insertColumns) > 0
         THEN [i \in DOMAIN map.insertColumns |-> RawKey(map.insertColumns[i])]
         ELSE LET keys == Unique(AllObjectKeys(getValueSets(map)), <<>>)
              IN [i \in DOMAIN keys |-> RawKey(keys[i])]

createColumnNamesExpressionOverriding(drv, map) ==
    LET columns == getInsertedColumnsOrKeysOverriding(drv, map)
    IN JoinWith([i \in DOMAIN columns |-> escape(drv, columns[i].databaseName)],
                ", ")

createValuesExpressionOverriding(drv, map) ==
    ValuesExpressionOver(drv, map, getValueSets(map),
                         getInsertedColumnsOrKeysOverriding(drv, map))

\* the conflict parts pushed on the query array
ConflictParts(drv, map) ==
    IF drv \in {"postgres", "sqlite"}
    THEN (IF map.onIgnore THEN <<"ON CONFLICT DO NOTHING">> ELSE <<>>)
         \o (IF map.onConflict # "" THEN <<"ON CONFLICT " \o map.onConflict>>
             ELSE <<>>)
         \o (IF map.onUpdate.t = "undefined" THEN <<>>
             ELSE (IF map.onUpdate.columns.t # "undefined"
                   THEN <<"ON CONFLICT", TextOf(map.onUpdate.conflict),
                          "DO UPDATE SET", map.onUpdate.columns.v>>
                   ELSE <<>>)
                  \o (IF map.onUpdate.overwrite.t # "undefined"
                      THEN <<"ON CONFLICT", TextOf(map.onUpdate.conflict),
                             " DO UPDATE SET", map.onUpdate.overwrite.v>>
                      ELSE <<>>))
    ELSE IF drv = "mysql" /\ map.onUpdate.t # "undefined"
         THEN (IF map.onUpdate.columns.t # "undefined"
               THEN <<"ON DUPLICATE KEY UPDATE", map.onUpdate.columns.v>>
               ELSE <<>>)
              \o (IF map.onUpdate.overwrite.t # "undefined"
                  THEN <<"ON DUPLICATE KEY UPDATE", map.onUpdate.overwrite.v>>
                  ELSE <<>>)
         ELSE <<>>

\* the values parts pushed on the query array
ValuesParts(drv, map, valuesExpression) ==
    IF valuesExpression # ""
    THEN (IF drv = "oracle" /\ Len(getValueSets(map)) > 1 THEN <<>>
          ELSE <<"VALUES">>) \o <<valuesExpression>>
    ELSE IF drv = "mysql" THEN <<"VALUES ()">> ELSE <<"DEFAULT VALUES">>

\* the query array of createInsertExpression
QueryParts(drv, map, tableName, valuesExpression, returningExpression, columnsExpression) ==
    <<"INSERT">>
    \o (IF drv = "mysql" /\ map.onIgnore THEN <<"IGNORE">> ELSE <<>>)
    \o <<"INTO", tableName>>
    \o (IF columnsExpression # "" THEN <<"(" \o columnsExpression \o ")">>
        ELSE IF valuesExpression = "" /\ drv = "mysql" THEN <<"()">>
             ELSE <<>>)
    \o (IF returningExpression # "" /\ drv = "mssql"
        THEN <<"OUTPUT", returningExpression>> ELSE <<>>)
    \o ValuesParts(drv, map, valuesExpression)
    \o ConflictParts(drv, map)
    \o (IF returningExpression # "" /\ drv \in {"postgres", "oracle"}
        THEN <<"RETURNING", returningExpression>> ELSE <<>>)

\* the test made before the text is returned: SQL Server, an entity, and an
\* overridden key among the columns the caller listed or, with no list, the
\* insertable ones
NeedsIdentityInsert(drv, map) ==
    /\ drv = "mssql"
    /\ map.mainAlias.hasMetadata
    /\ \E i \in DOMAIN map.mainAlias.columns :
          /\ IF Len(map.insertColumns) > 0
             THEN map.mainAlias.columns[i].propertyPath
                      \in SeqToSet(map.insertColumns)
             ELSE map.mainAlias.columns[i].isInsert
          /\ isOverridingAutoIncrementBehavior(map, map.mainAlias.columns[i])

\* the text createInsertExpression returns for its query array
IdentityInsertText(drv, map, tableName, query) ==
    IF NeedsIdentityInsert(drv, map)
    THEN "SET IDENTITY_INSERT " \o tableName \o " ON; " \o JoinWith(query, " ")
         \o "; SET IDENTITY_INSERT " \o tableName \o " OFF"
    ELSE JoinWith(query, " ")

\* createInsertExpression() once the values expression is there
InsertExpressionOverridingWith(drv, map, valuesExpression) ==
    [sql |-> IdentityInsertText(drv, map, getTableName(drv, map),
                QueryParts(drv, map, getTableName(drv, map),
                           valuesExpression.text,
                           createReturningExpression(drv, map),
                           createColumnNamesExpressionOverriding(drv, map))),
     values |-> JoinWith(ValuesParts(drv, map, valuesExpression.text), " "),
     tuples |-> valuesExpression.tuples,
     nativeParameters |-> valuesExpression.nativeParameters]

createInsertExpressionOverriding(drv, map) ==
    InsertExpressionOverridingWith(drv, map,
                                   createValuesExpressionOverriding(drv, map))

\* getQuery(): the comment and the expression, the empty ones dropped
getQueryOverriding(drv, map) ==
    [createInsertExpressionOverriding(drv, map) EXCEPT
        !.sql = JoinWith(SelectSeq(<<createComment, @>>,
                                   LAMBDA q : q # ""), " ")]

\* expressionMap.mainAlias of this builder: the insert targets, an entity
\* whose auto-increment key is not insertable and one whose auto-increment
\* column is no primary column
IdentityTargets ==
    InsertTargets \cup
    { [hasMetadata |-> TRUE, tableName |-> "ledger",
       columns |-> << InsertCol("id", TRUE, TRUE, FALSE),
                      InsertCol("name", FALSE, FALSE, TRUE) >>],
      [hasMetadata |-> TRUE, tableName |-> "ticket",
       columns |-> << InsertCol("id", FALSE, TRUE, TRUE),
                      InsertCol("name", FALSE, FALSE, TRUE) >>] }

\* the value-set rows a caller passes to values(): the key given, given as
\* null, and left out
IdentityRows ==
    { <<>>,
      <<KV("id", Num("7"))>>,
      <<KV("id", Null)>>,
      <<KV("name", Str("a"))>>,
      <<KV("id", Num("7")), KV("name", Str("a"))>>,
      <<KV("id", Null), KV("name", Str("a"))>> }

IdentityValuesInputs ==
    {Obj(row) : row \in IdentityRows}
        \cup {List(rows) : rows \in SeqsUpTo(IdentityRows, MaxValueSets)}

IdentityInit ==
    /\ pc = "building"
    /\ scn = "insert"
    /\ driver \in {"mssql", "postgres", "mysql"}
    /\ \E mainAlias \in IdentityTargets : expressionMap = NewInsertMap(mainAlias)
    /\ rawResults = <<>>
    /\ rawRelationIdResults = <<>>
    /\ rawRelationCountResults = <<>>
    /\ entities = <<>>
    /\ statement = NoStatement
    /\ sent = <<>>
    /\ events = <<>>
    /\ outcome = NoOutcome
    /\ invoked = Unrecorded

\* into(entityTarget, columns)
IdentityInto ==
    /\ pc = "building"
    /\ \E mainAlias \in IdentityTargets, columns \in ColumnInputs :
          expressionMap' = [expressionMap EXCEPT !.mainAlias = mainAlias,
                                                 !.insertColumns = columns]
    /\ UNCHANGED <<pc, statement, sent, events, outcome>>
    /\ InsertFrame

\* values(values)
IdentityValues ==
    /\ pc = "building"
    /\ \E values \in IdentityValuesInputs :
          expressionMap' = [expressionMap EXCEPT !.valuesSet = values]
    /\ UNCHANGED <<pc, statement, sent, events, outcome>>
    /\ InsertFrame

\* getQuery()
IdentityGetQuery ==
    /\ pc = "building"
    /\ IF ValueSetsMissing(expressionMap)
       THEN /\ outcome' = InsertValuesMissingError
            /\ pc' = "getQueryFailed"
            /\ UNCHANGED <<expressionMap, statement>>
       ELSE /\ Built(expressionMap, getQueryOverriding(driver, expressionMap))
            /\ outcome' = Str(statement'.sql)
            /\ pc' = "built"
    /\ UNCHANGED <<sent, events>>
    /\ InsertFrame

IdentityNext ==
    \/ IdentityInto
    \/ IdentityValues
    \/ IdentityGetQuery

IdentityInsert == IdentityInit /\ [][IdentityNext]_vars

(***************************************************************************)
(* RelationQueryBuilder: of(), then set(), add() or remove(), which hand   *)
(* the value to a RelationUpdater or a RelationRemover                     *)
(***************************************************************************)
isManyToMany(relation) == relation.relationType = "many-to-many"

\* expressionMap.relationMetadata of the builder: every relation type, with
\* one join column and with two
RelationTargets ==
    { [Rel("Post", "tags", type, "Tag") EXCEPT !.joinColumns = columns] :
        type \in {"many-to-many", "one-to-many", "many-to-one", "one-to-one"},
        columns \in {<<"id">>, <<"firstId", "secondId">>} }

NewRelationMap(relation) == [of |-> Undefined, relationMetadata |-> relation]

\* the entities a caller passes to of()
OfInputs == {Num("1"), Num("0"), Obj(<<KV("id", Num("1"))>>)}

\* the values a caller passes to set(), add() and remove()
RelationValues ==
    { Num("5"), Null, Obj(<<KV("firstId", Num("5"))>>),
      Obj(<<KV("firstId", Num("5")), KV("secondId", Num("6"))>>),
      List(<<>>), List(<<Num("5")>>) }

\* !value of JavaScript
Falsy(value) ==
    value \in {Undefined, Null, Num("0"), Str("")}

\* Array.isArray(value) && value.length === 0
IsEmptyArray(value) == value.t = "list" /\ Len(value.l) = 0

\* value instanceof Object
InstanceOfObject(value) == value.t \in {"object", "list"}

OfMissingError ==
    [t |-> "error", name |-> "Error",
     message |-> "Entity whose relation needs to be set is not set. Use .of method to define whose relation you want to set."]

SetUnsupportedError ==
    [t |-> "error", name |-> "Error",
     message |-> "Set operation is only supported for many-to-one and one-to-one relations."]

AddUnsupportedError ==
    [t |-> "error", name |-> "Error",
     message |-> "Add operation is only supported for many-to-many and one-to-many relations."]

IdMapExpectedError ==
    [t |-> "error", name |-> "Error",
     message |-> "Value to be set into the relation must be a map of relation ids"]

\* Object.keys(value).length of an object or an array
KeyCount(value) == IF value.t = "list" THEN Len(value.l) ELSE Len(value.v)

\* the test of a value against several join columns
IdMapMissing(relation, value) ==
    /\ Len(relation.joinColumns) > 1
    /\ \/ ~InstanceOfObject(value)
       \/ KeyCount(value) < Len(relation.joinColumns)

\* mutant: set() without the test of the relation type
SetAlwaysSupported(relation) == FALSE

\* set() is for many-to-one and one-to-one relations
SetUnsupported(relation) == isManyToMany(relation) \/ isOneToMany(relation)

\* add() and remove() are for many-to-many and one-to-many relations
AddUnsupported(relation) == isManyToOne(relation) \/ isOneToOne(relation)

\* what a call hands to its collaborator
Handed(collaborator, value) == [to |-> collaborator, value |-> value]

\* the outcome of a call: what it throws, and what it hands on
Thrown(error) == [thrown |-> error, handed |-> <<>>]
HandedOn(collaborator, value) ==
    [thrown |-> NoError, handed |-> <<Handed(collaborator, value)>>]
Returned == [thrown |-> NoError, handed |-> <<>>]

\* set(value)
SetRelation(map, value) ==
    IF Falsy(map.of) THEN Thrown(OfMissingError)
    ELSE IF SetUnsupported(map.relationMetadata) THEN Thrown(SetUnsupportedError)
    ELSE IF IdMapMissing(map.relationMetadata, value)
         THEN Thrown(IdMapExpectedError)
    ELSE HandedOn("RelationUpdater", value)

\* add(value)
AddRelation(map, value) ==
    IF IsEmptyArray(value) THEN Returned
    ELSE IF Falsy(map.of) THEN Thrown(OfMissingError)
    ELSE IF AddUnsupported(map.relationMetadata) THEN Thrown(AddUnsupportedError)
    ELSE IF IdMapMissing(map.relationMetadata, value)
         THEN Thrown(IdMapExpectedError)
    ELSE HandedOn("RelationUpdater", value)

\* remove(value)
RemoveRelation(map, value) ==
    IF IsEmptyArray(value) THEN Returned
    ELSE IF Falsy(map.of) THEN Thrown(OfMissingError)
    ELSE IF AddUnsupported(map.relationMetadata) THEN Thrown(AddUnsupportedError)
    ELSE HandedOn("RelationRemover", value)

RelationInit ==
    /\ pc = "building"
    /\ scn = "relation"
    /\ driver = "postgres"
    /\ \E relation \in RelationTargets : expressionMap = NewRelationMap(relation)
    /\ rawResults = <<>>
    /\ rawRelationIdResults = <<>>
    /\ rawRelationCountResults = <<>>
    /\ entities = <<>>
    /\ statement = NoStatement
    /\ sent = <<>>
    /\ events = <<>>
    /\ outcome = NoOutcome
    /\ invoked = Recording

\* the parts of the state the relation builder never touches
RelationFrame ==
    UNCHANGED <<scn, rawResults, rawRelationIdResults, rawRelationCountResults,
                entities, driver, statement, events>>

\* the call has ended: its promise is settled and its collaborator has the
\* value
Related(call, value, result) ==
    /\ outcome' = result.thrown
    /\ sent' = sent \o result.handed
    /\ invoked' = Logged(invoked, Call(call, value))
    /\ pc' = "related"
    /\ UNCHANGED expressionMap
    /\ RelationFrame

\* of(entity)
Of ==
    /\ pc = "building"
    /\ \E entity \in OfInputs :
          expressionMap' = [expressionMap EXCEPT !.of = entity]
    /\ UNCHANGED <<pc, sent, outcome, invoked>>
    /\ RelationFrame

\* set(value)
SetTo ==
    /\ pc = "building"
    /\ \E value \in RelationValues :
          Related("set", value, SetRelation(expressionMap, value))

\* add(value)
AddTo ==
    /\ pc = "building"
    /\ \E value \in RelationValues :
          Related("add", value, AddRelation(expressionMap, value))

\* remove(value)
RemoveFrom ==
    /\ pc = "building"
    /\ \E value \in RelationValues :
          Related("remove", value, RemoveRelation(expressionMap, value))

RelationNext == Of \/ SetTo \/ AddTo \/ RemoveFrom

Relation == RelationInit /\ [][RelationNext]_vars

(***************************************************************************)
(* Vocabulary of the hydration properties, stated on the raw rows          *)
(***************************************************************************)
Hydrated == pc = "hydrated"
Main == expressionMap.mainAlias

\* the value of the (single) primary column of an alias in a raw row
KeyOf(row, aliasName) ==
    RowGet(row, buildColumnAlias(aliasName,
                    MetadataOf(aliasName).primaryColumns[1].databaseName))

\* the rows of the result set that belong to the parent with key k
RowsOfKey(k) == SelectSeq(rawResults, LAMBDA row : KeyOf(row, Main) = k)

ParentKeys == {KeyOf(rawResults[n], Main) : n \in DOMAIN rawResults}

\* the distinct primary keys of the parents in the result set, each one the
\* tuple of its primary-column values
ParentKeyTuples ==
    {[i \in DOMAIN MetadataOf(Main).primaryColumns |->
        RowGet(rawResults[n],
               buildColumnAlias(Main, MetadataOf(Main).primaryColumns[i].databaseName))]
     : n \in DOMAIN rawResults}

\* the row index at which a key of an alias first appears in a row sequence
FirstIndex(rows, aliasName, k) ==
    CHOOSE n \in DOMAIN rows :
        /\ KeyOf(rows[n], aliasName) = k
        /\ \A m \in 1..(n - 1) : KeyOf(rows[m], aliasName) # k

\* the distinct non-null keys of a joined alias among some rows
ChildKeys(rows, aliasName) ==
    {KeyOf(rows[n], aliasName) : n \in DOMAIN rows} \ {Null, Undefined}

\* the first row of the group holds a non-null value in a column of the
\* alias that is selected as a plain (not internal) column
PlainValue(rows, aliasName) ==
    \E i \in DOMAIN expressionMap.selects :
        LET select == expressionMap.selects[i]
        IN /\ select.target = aliasName
           /\ ~ select.internal
           /\ ~ select.column.isInternal
           /\ RowGet(rows[1], select.alias) \notin {Null, Undefined}

\* the rows of a parent's group that belong to the child with key ck
RowsOfChild(rows, aliasName, ck) ==
    SelectSeq(rows, LAMBDA row : KeyOf(row, aliasName) = ck)

\* the selected many-joins hanging off the main alias
ManyJoins ==
    {i \in DOMAIN expressionMap.joinAttributes :
        LET join == expressionMap.joinAttributes[i]
        IN join.isMany /\ join.isSelected /\ join.parentAlias = Main}

IdIsPlain ==
    \E i \in DOMAIN expressionMap.selects :
        LET select == expressionMap.selects[i]
        IN select.target = Main /\ ~ select.internal /\ ~ select.column.isInternal
           /\ SeqToSet(MetadataOf(Main).primaryColumns) = {select.column}

\* the hydrated entities of the parent with key k (the main alias selects
\* its primary column "id" as a plain column)
EntitiesOfKey(k) == SelectSeq(entities, LAMBDA e : GetProperty(e, "id") = k)

(***************************************************************************)
(* C1 (as stated): whenever a parent key appears in N rows of a selected   *)
(* isMany join with M distinct child keys, transform returns exactly one   *)
(* entity for the parent, whose relation property lists exactly M children *)
(***************************************************************************)
FanOutOf(k, i) ==
    LET join == expressionMap.joinAttributes[i]
        rows == RowsOfKey(k)
        es == transform(rows, Main)
    IN /\ Len(es) = 1
       /\ es[1] \in SeqToSet(entities)
       /\ GetProperty(es[1], JoinProperty(join)).t = "list"
       /\ Len(GetProperty(es[1], JoinProperty(join)).l)
            = Cardinality(ChildKeys(rows, join.alias))

FanOutCollapseAsStated ==
    Hydrated => \A k \in ParentKeys : \A i \in ManyJoins : FanOutOf(k, i)

(***************************************************************************)
(* C1 (amended): the same, for the parents whose group holds a non-null    *)
(* plain column value and whose children's groups each hold one; at most   *)
(* one entity is returned per parent key in any case                       *)
(***************************************************************************)
Contributing(k, i) ==
    LET join == expressionMap.joinAttributes[i]
        rows == RowsOfKey(k)
    IN /\ PlainValue(rows, Main)
       /\ \A ck \in ChildKeys(rows, join.alias) :
            PlainValue(RowsOfChild(rows, join.alias, ck), join.alias)

FanOutCollapse ==
    Hydrated => /\ Len(entities) <= Cardinality(ParentKeyTuples)
                /\ \A k \in ParentKeys : \A i \in ManyJoins :
                        Contributing(k, i) => FanOutOf(k, i)

\* a parent duplicated over 3 rows by 2 distinct children, collapsed
FanOutWitness ==
    /\ Hydrated
    /\ \E k \in ParentKeys : \E i \in ManyJoins :
        /\ Len(RowsOfKey(k)) = 3
        /\ Cardinality(ChildKeys(RowsOfKey(k), expressionMap.joinAttributes[i].alias)) = 2
        /\ Contributing(k, i)
        /\ FanOutOf(k, i)

(***************************************************************************)
(* C2: the groups are in order of first appearance of their key, the rows  *)
(* of a group keep their raw-stream order, the returned entities are in    *)
(* order of first appearance of their key, and the children of a many      *)
(* relation are in order of first appearance of the child key              *)
(***************************************************************************)
FirstIndexOfId(rows, aliasName, id) ==
    CHOOSE n \in DOMAIN rows :
        /\ GroupId(rows[n], aliasName) = id
        /\ \A m \in 1..(n - 1) : GroupId(rows[m], aliasName) # id

GroupsInOrder(rows, aliasName) ==
    LET groups == group(rows, aliasName)
    IN /\ {groups[i].id : i \in DOMAIN groups}
            = {GroupId(rows[n], aliasName) : n \in DOMAIN rows}
       /\ \A i \in DOMAIN groups :
            groups[i].items =
                SelectSeq(rows, LAMBDA row : GroupId(row, aliasName) = groups[i].id)
       /\ \A i, j \in DOMAIN groups :
            i < j => FirstIndexOfId(rows, aliasName, groups[i].id)
                        < FirstIndexOfId(rows, aliasName, groups[j].id)

EntitiesInOrder(es, rows, aliasName) ==
    \A i, j \in DOMAIN es :
        i < j => /\ GetProperty(es[i], "id") \in ChildKeys(rows, aliasName)
                 /\ GetProperty(es[j], "id") \in ChildKeys(rows, aliasName)
                 /\ FirstIndex(rows, aliasName, GetProperty(es[i], "id"))
                        < FirstIndex(rows, aliasName, GetProperty(es[j], "id"))

OrderPreservation ==
    Hydrated =>
        /\ \A a \in DOMAIN expressionMap.aliases :
                GroupsInOrder(rawResults, a)
        /\ IdIsPlain => EntitiesInOrder(entities, rawResults, Main)
        /\ scn = "fanout" =>
                \A i \in DOMAIN entities :
                    EntitiesInOrder(GetProperty(entities[i], "categories").l,
                                    RowsOfKey(GetProperty(entities[i], "id")), "c")

\* three parents returned in the order 2, 1 in which their keys first
\* appear, the first one holding its two children in the order 2, 1
OrderWitness ==
    /\ Hydrated /\ scn = "fanout"
    /\ Len(rawResults) = 3 /\ Len(entities) = 2
    /\ GetProperty(entities[1], "id") = Two
    /\ GetProperty(entities[2], "id") = One
    /\ KeyOf(rawResults[2], Main) = One
    /\ Len(GetProperty(entities[1], "categories").l) = 2
    /\ GetProperty(GetProperty(entities[1], "categories").l[1], "id") = Two

(***************************************************************************)
(* The row groups hydration turns into entities: the groups of the main    *)
(* alias, and under each group the groups of every joined alias, down the  *)
(* join tree                                                               *)
(***************************************************************************)
\* the joins hanging off an alias
JoinsUnder(aliasName) ==
    {i \in DOMAIN expressionMap.joinAttributes :
        LET join == expressionMap.joinAttributes[i]
        IN IF join.mapToProperty # "" THEN join.mapToPropertyParentAlias = aliasName
           ELSE join.parentAlias = aliasName}

GroupCalls(calls) ==
    {[rows |-> g.items, alias |-> expressionMap.joinAttributes[i].alias] :
        <<g, i>> \in UNION {
            {<<g, i>> : g \in SeqToSet(group(c.rows,
                                             expressionMap.joinAttributes[i].alias))}
            : <<c, i>> \in {<<c, i>> \in calls \X DOMAIN expressionMap.joinAttributes :
                                i \in JoinsUnder(c.alias)
                                /\ expressionMap.joinAttributes[i].isSelected}}}

RootCalls == {[rows |-> g.items, alias |-> Main] : g \in SeqToSet(group(rawResults, Main))}

Calls == RootCalls \cup GroupCalls(RootCalls) \cup GroupCalls(GroupCalls(RootCalls))

\* the entity holds a relation, a relation id or a relation count
Contributed(entity, aliasName) ==
    \/ \E i \in JoinsUnder(aliasName) :
            JoinProperty(expressionMap.joinAttributes[i]) \in DOMAIN entity.props
    \/ \E i \in DOMAIN rawRelationIdResults :
            /\ rawRelationIdResults[i].relationIdAttribute.parentAlias = aliasName
            /\ rawRelationIdResults[i].relationIdAttribute.mapToPropertyPropertyPath
                    \in DOMAIN entity.props
    \/ \E i \in DOMAIN rawRelationCountResults :
            /\ rawRelationCountResults[i].relationCountAttribute.parentAlias = aliasName
            /\ rawRelationCountResults[i].relationCountAttribute.mapToPropertyPropertyName
                    \in DOMAIN entity.props

AllPrimaryColumnsInternal(aliasName) ==
    \A c \in SeqToSet(MetadataOf(aliasName).primaryColumns) : c.isInternal

(***************************************************************************)
(* C3: a group yields an entity only if it holds a non-null plain column   *)
(* value, or all primary columns of the alias are internal and the group   *)
(* contributed a relation, relation id or relation count; with a           *)
(* non-internal primary column and no plain column value it yields none    *)
(***************************************************************************)
GhostSuppression ==
    \A c \in Calls :
        LET entity == transformRawResultsGroup(c.rows, c.alias)
        IN /\ entity # Undefined =>
                \/ PlainValue(c.rows, c.alias)
                \/ AllPrimaryColumnsInternal(c.alias) /\ Contributed(entity, c.alias)
           /\ (~ AllPrimaryColumnsInternal(c.alias) /\ ~ PlainValue(c.rows, c.alias))
                => entity = Undefined

\* a parent group with a joined child but no plain column value of its own:
\* nothing is returned for it
GhostWitness ==
    /\ Hydrated /\ scn = "ghost"
    /\ Len(rawResults) = 2
    /\ KeyOf(rawResults[1], Main) = KeyOf(rawResults[2], Main)
    /\ ~ PlainValue(rawResults, Main)
    /\ ChildKeys(rawResults, "c") # {}
    /\ transform(rawResults, "c") # <<>>
    /\ entities = <<>>

(***************************************************************************)
(* C4: on the entity of every group of the main alias, a selected non-many *)
(* join of that alias is null when the joined alias has no entity in the   *)
(* group's rows and the first of its entities otherwise; a join that is    *)
(* not selected, or hangs off another alias, leaves its property           *)
(* unassigned                                                              *)
(***************************************************************************)
\* the non-null keys of a joined alias in row order
KeysInOrder(rows, aliasName) ==
    SelectSeq([n \in DOMAIN rows |-> KeyOf(rows[n], aliasName)],
              LAMBDA k : k \notin {Null, Undefined})

JoinedOrNull(entity, rows, join) ==
    LET value == GetProperty(entity, JoinProperty(join))
        keys == KeysInOrder(rows, join.alias)
    IN IF keys = <<>> THEN value = Null
       ELSE value.t = "entity" /\ GetProperty(value, "id") = keys[1]

DiscriminatorOf(rows) ==
    IF \A n \in DOMAIN rows : rows[n].p_type = rows[1].p_type
    THEN rows[1].p_type ELSE Undefined

DiscriminatorResolution ==
    (Hydrated /\ scn = "sti") =>
        \A k \in ParentKeys :
            LET rows == RowsOfKey(k)
                d == DiscriminatorOf(rows)
                es == EntitiesOfKey(k)
            IN /\ Len(es) = 1
               /\ d = Str("Photo") =>
                    /\ es[1].meta = "Photo"
                    /\ GetProperty(es[1], "size") = rows[1].p_size
                    /\ GetProperty(es[1], "votes") = Undefined
               /\ d = Str("Question") =>
                    /\ es[1].meta = "Question"
                    /\ GetProperty(es[1], "votes") = rows[1].p_votes
                    /\ GetProperty(es[1], "size") = Undefined
               /\ d = Str("Other") =>
                    /\ es[1].meta = "Content"
                    /\ GetProperty(es[1], "size") = Undefined
                    /\ GetProperty(es[1], "votes") = Undefined

\* a Photo with its size next to a row of an undeclared type
DiscriminatorWitness ==
    /\ Hydrated /\ scn = "sti" /\ Len(entities) = 2
    /\ entities[1].meta = "Photo" /\ GetProperty(entities[1], "size") = Str("9")
    /\ entities[2].meta = "Content"
    /\ DiscriminatorOf(RowsOfKey(GetProperty(entities[2], "id"))) = Str("Other")
    /\ Len(RowsOfKey(GetProperty(entities[1], "id"))) = 2

(***************************************************************************)
(* C6 (as stated): on every hydrated parent of a relation-count result,    *)
(* the count property is 0 when no side row has the parent's               *)
(* reference-column value as parentId, and the count of the matching row   *)
(* otherwise; it is never left undefined                                   *)
(***************************************************************************)
\* the side rows of a relation-count result that match a reference value
MatchingCounts(result, reference) ==
    SelectSeq(result.results, LAMBDA row : row.parentId = reference)

CountOf(entity, rows, result) ==
    LET attr == result.relationCountAttribute
        reference == RowGet(rows[1], buildColumnAlias(attr.parentAlias,
                                        ReferenceColumnName(attr.relation)))
        matching == MatchingCounts(result, reference)
        value == GetProperty(entity, attr.mapToPropertyPropertyName)
    IN IF matching = <<>> THEN value = Num("0")
       ELSE value = Num(matching[Len(matching)].cnt.v)

\* the reference-column value hydration reads for a group
ReferenceValue(rows, result) ==
    RowGet(rows[1], buildColumnAlias(result.relationCountAttribute.parentAlias,
                        ReferenceColumnName(result.relationCountAttribute.relation)))

RelationCountDefaultAsStated ==
    (Hydrated /\ scn = "counts") =>
        \A k \in ParentKeys :
            /\ Len(EntitiesOfKey(k)) = 1
            /\ \A i \in DOMAIN rawRelationCountResults :
                CountOf(EntitiesOfKey(k)[1], RowsOfKey(k), rawRelationCountResults[i])

(***************************************************************************)
(* C6 (amended): the same for the parents whose reference-column value, as *)
(* read from the first row of the group, is neither null nor undefined;    *)
(* for the other parents the count property is left unassigned             *)
(***************************************************************************)
RelationCountDefault ==
    (Hydrated /\ scn = "counts") =>
        \A k \in ParentKeys :
            /\ Len(EntitiesOfKey(k)) = 1
            /\ \A i \in DOMAIN rawRelationCountResults :
                LET result == rawRelationCountResults[i]
                    entity == EntitiesOfKey(k)[1]
                IN IF ReferenceValue(RowsOfKey(k), result) \in {Null, Undefined}
                   THEN GetProperty(entity,
                            result.relationCountAttribute.mapToPropertyPropertyName)
                        = Undefined
                   ELSE CountOf(entity, RowsOfKey(k), result)

\* two parents of one relation-count result: the side rows match the first
\* only, the second gets the default 0
RelationCountWitness ==
    /\ Hydrated /\ scn = "counts" /\ Len(entities) = 2
    /\ Len(rawRelationCountResults[1].results) = 2
    /\ GetProperty(entities[1], "tagCount") = Num("5")
    /\ GetProperty(entities[2], "tagCount") = Num("0")
    /\ GetProperty(entities[2], "code") # Null

(***************************************************************************)
(* Vocabulary of the insert properties                                     *)
(***************************************************************************)
Inserting == scn = "insert"

\* execute() was called
Executed == pc \in {"executeFailed", "before", "inside", "after", "done"}

\* getQuery() returned, or execute() got past executeInsideTransaction
Emitted == pc \in {"built", "after", "done"}

\* getQuery() or execute() has ended, normally or not
Ended == pc \in {"built", "getQueryFailed", "executeFailed", "done"}

ValueSetGiven == expressionMap.valuesSet.t \in {"list", "object"}

ValueSetRows ==
    IF expressionMap.valuesSet.t = "list" THEN expressionMap.valuesSet.l
    ELSE <<expressionMap.valuesSet.v>>

ColumnList == getInsertedColumnsOrKeys(driver, expressionMap)

NothingEmitted == statement = NoStatement /\ sent = <<>> /\ events = <<>>

(***************************************************************************)
(* C7: execute() on an insert builder whose values are an explicit empty   *)
(* array returns a fresh empty InsertResult; on that path no SQL text is   *)
(* built, no query is sent and no before/after insert event is broadcast   *)
(***************************************************************************)
EmptyInsertShortCircuit ==
    (Inserting /\ Executed /\ expressionMap.valuesSet = List(<<>>)) =>
        /\ pc = "done"
        /\ outcome = [t |-> "InsertResult", identifiers |-> <<>>,
                      generatedMaps |-> <<>>, raw |-> Undefined]
        /\ NothingEmitted
        /\ expressionMap.nativeParameters = <<>>

\* execute() has returned on a builder given values([])
EmptyInsertWitness ==
    /\ Inserting /\ pc = "done"
    /\ expressionMap.valuesSet = List(<<>>)
    /\ outcome.t = "InsertResult"

(***************************************************************************)
(* C8: when values() was never called, execute() and getQuery() fail with  *)
(* InsertValuesMissingError before any SQL text is produced, any lifecycle *)
(* event is broadcast or any query is sent                                 *)
(***************************************************************************)
InsertWithoutValues ==
    (Inserting /\ ~ValueSetGiven /\ pc # "building") =>
        /\ pc \in {"getQueryFailed", "executeFailed"}
        /\ outcome = [t |-> "error", name |-> "InsertValuesMissingError"]
        /\ NothingEmitted

\* execute() has failed on a builder values() was never called on
InsertWithoutValuesWitness ==
    /\ Inserting /\ pc = "executeFailed"
    /\ expressionMap.valuesSet = Undefined
    /\ outcome.t = "error"

OneTuplePerRow ==
    (Inserting /\ Emitted /\ Len(ValueSetRows) >= 1) =>
        /\ Len(statement.tuples) = Len(ValueSetRows)
        /\ \A k \in DOMAIN statement.tuples :
              /\ Len(statement.tuples[k]) = Len(ColumnList)
              /\ \A c \in DOMAIN ColumnList :
                    LET value == ValueOf(ValueSetRows[k], ColumnList[c].propertyPath)
                    IN value.t = "function" => statement.tuples[k][c] = value.v

\* C10, where the computed column list is not empty: the statement carries
\* one tuple per row, each one cell per column
OneTuplePerRowOfColumns ==
    (Inserting /\ Emitted /\ Len(ValueSetRows) >= 1 /\ ColumnList # <<>>) =>
        /\ Len(statement.tuples) = Len(ValueSetRows)
        /\ \A k \in DOMAIN statement.tuples :
              /\ Len(statement.tuples[k]) = Len(ColumnList)
              /\ \A c \in DOMAIN ColumnList :
                    LET value == ValueOf(ValueSetRows[k], ColumnList[c].propertyPath)
                    IN value.t = "function" => statement.tuples[k][c] = value.v

\* two rows without keys were given and one DEFAULT VALUES statement sent
LostRowWitness ==
    /\ Inserting /\ pc = "done"
    /\ Len(ValueSetRows) = 2
    /\ ColumnList = <<>>
    /\ Len(sent) = 1
    /\ statement.tuples = <<>>

(***************************************************************************)
(* Vocabulary of the emission properties, stated on the text built         *)
(***************************************************************************)
\* the text holds the piece at position i
HoldsAt(text, piece, i) ==
    /\ i >= 1
    /\ i + Len(piece) - 1 <= Len(text)
    /\ SubSeq(text, i, i + Len(piece) - 1) = piece

Occurrences(text, piece) == {i \in 1..Len(text) : HoldsAt(text, piece, i)}

Contains(text, piece) == Occurrences(text, piece) # {}

StartsWith(text, piece) == HoldsAt(text, piece, 1)

EndsWith(text, piece) == HoldsAt(text, piece, Len(text) - Len(piece) + 1)

\* the first position of a piece the text contains
FirstOf(text, piece) ==
    CHOOSE i \in Occurrences(text, piece) :
        \A j \in Occurrences(text, piece) : i <= j

\* the column list of an INSERT text: what stands between the parentheses
\* that follow the table name, the empty text when none follows it
InsertHead == "INSERT INTO " \o escape(driver, expressionMap.mainAlias.tableName)

ColumnListText(sql) ==
    IF HoldsAt(sql, "(", Len(InsertHead) + 1)
    THEN SubSeq(sql, Len(InsertHead) + 2, FirstOf(sql, ")") - 1)
    ELSE ""

Updating == scn = "update"
Deleting == scn = "delete"
Rendered == pc = "built"
MetadataBacked == expressionMap.mainAlias.hasMetadata

\* an INSERT text was built, by getQuery() or by execute()
InsertRendered == Inserting /\ statement # NoStatement

\* the columns of the target with a flag off
ColumnsWithout(flag) ==
    {expressionMap.mainAlias.columns[i].databaseName :
        i \in {j \in DOMAIN expressionMap.mainAlias.columns :
                 ~expressionMap.mainAlias.columns[j][flag]}}

\* the automatic assignments to a column in the text of an UPDATE: the
\* increment of the version column, the touch of the update-date column
AutomaticAssignments(name) ==
    (IF /\ expressionMap.mainAlias.versionColumn # Undefined
        /\ expressionMap.mainAlias.versionColumn.databaseName = name
     THEN Occurrences(statement.sql, escape(driver, name) \o " = "
                                     \o escape(driver, name) \o " + 1")
     ELSE {})
    \cup
    (IF /\ expressionMap.mainAlias.updateDateColumn # Undefined
        /\ expressionMap.mainAlias.updateDateColumn.databaseName = name
     THEN Occurrences(statement.sql, escape(driver, name)
                                     \o " = CURRENT_TIMESTAMP")
     ELSE {})

\* the assignments to a column that come from the caller's value set
CallerAssignments(name) ==
    Occurrences(statement.sql, escape(driver, name) \o " = ")
        \ AutomaticAssignments(name)

(***************************************************************************)
(* C11 (as stated): for a metadata-backed value set a column whose         *)
(* isInsert flag is false never appears in the emitted INSERT column list, *)
(* and a column whose isUpdate flag is false never appears as an           *)
(* assignment of the UPDATE SET clause, whatever column subset the caller  *)
(* passed to into()                                                        *)
(***************************************************************************)
EligibilityFilterAsStated ==
    /\ (InsertRendered /\ MetadataBacked) =>
          \A name \in ColumnsWithout("isInsert") :
              ~Contains(ColumnListText(statement.sql), escape(driver, name))
    /\ (Updating /\ Rendered /\ MetadataBacked) =>
          \A name \in ColumnsWithout("isUpdate") : CallerAssignments(name) = {}

(***************************************************************************)
(* C11 (amended): without an explicit column subset a column whose         *)
(* isInsert flag is false never appears in the INSERT column list; with an *)
(* explicit subset the column list holds the columns the subset names,     *)
(* whatever their isInsert flag; a column whose isUpdate flag is false     *)
(* never appears as an assignment of the UPDATE SET clause                 *)
(***************************************************************************)
EligibilityFilter ==
    /\ (InsertRendered /\ MetadataBacked) =>
          \A name \in ColumnsWithout("isInsert") :
              Contains(ColumnListText(statement.sql), escape(driver, name))
                  <=> name \in SeqToSet(expressionMap.insertColumns)
    /\ (Updating /\ Rendered /\ MetadataBacked) =>
          \A name \in ColumnsWithout("isUpdate") : CallerAssignments(name) = {}

\* an UPDATE was rendered from a value set that supplies a value for a
\* column that is not updatable, next to one for a column that is
EligibilityWitness ==
    /\ Updating /\ Rendered /\ MetadataBacked
    /\ ColumnsWithout("isUpdate") # {}
    /\ \E name \in ColumnsWithout("isUpdate") :
          name \in SeqToSet(ObjectKeys(expressionMap.valuesSet.v))
    /\ Len(statement.set) >= 1

\* the number of names of a column list text
NamesIn(columnList) ==
    IF columnList = "" THEN 0
    ELSE Cardinality(Occurrences(columnList, ", ")) + 1

\* the auto-increment columns of the target
IncrementColumns ==
    {expressionMap.mainAlias.columns[i].databaseName :
        i \in {j \in DOMAIN expressionMap.mainAlias.columns :
                 /\ expressionMap.mainAlias.columns[j].isGenerated
                 /\ expressionMap.mainAlias.columns[j].generationStrategy = "increment"}}

\* some row of the value set carries a value under the name
SuppliesValue(name) ==
    \E i \in DOMAIN ValueSetRows : ValueOf(ValueSetRows[i], name) # Undefined

\* a metadata-backed INSERT was built without an explicit column list and
\* without a caller-supplied value for an auto-increment column
DefaultColumnsInsert ==
    /\ InsertRendered /\ MetadataBacked
    /\ expressionMap.insertColumns = <<>>
    /\ \A name \in IncrementColumns : ~SuppliesValue(name)

IsPlaceholder(cell) ==
    \/ cell = "?"
    \/ \E sign \in {"$", ":", "@"} : StartsWith(cell, sign)

\* the placeholder cells of the statement, by value set and column position
PlaceholderCells ==
    {c \in (DOMAIN statement.tuples) \X (1..Len(ColumnList)) :
        /\ c[2] \in DOMAIN statement.tuples[c[1]]
        /\ IsPlaceholder(statement.tuples[c[1]][c[2]])}

\* row-major order: value-set index, then column index
RowMajorBefore(c, d) == c[1] < d[1] \/ (c[1] = d[1] /\ c[2] <= d[2])

\* the left-to-right position of a placeholder cell among the placeholders
Appearance(c) == Cardinality({d \in PlaceholderCells : RowMajorBefore(d, c)})

\* the text of the k-th positional placeholder of a driver, counted from one
PositionalPlaceholder(drv, k) ==
    CASE drv = "postgres" -> "$" \o ToString(k)
      [] drv = "oracle"   -> ":" \o ToString(k)
      [] drv = "mssql"    -> "@" \o ToString(k - 1)
      [] OTHER            -> "?"

\* the exported parameter a placeholder cell stands for: the value of its
\* row under its column
CellParameter(c) ==
    KV("i" \o ToString(c[1] - 1) \o "_" \o ColumnList[c[2]].databaseName,
       ColumnValue(ColumnList[c[2]], ValueSetRows[c[1]]))

\* the exported parameter list matches the placeholders of the text
ParametersMatchText ==
    /\ Cardinality(PlaceholderCells) = Len(expressionMap.nativeParameters)
    /\ \A c \in PlaceholderCells :
          /\ statement.tuples[c[1]][c[2]] = PositionalPlaceholder(driver, Appearance(c))
          /\ expressionMap.nativeParameters[Appearance(c)] = CellParameter(c)

(***************************************************************************)
(* C13: the placeholders of the VALUES expression are numbered in          *)
(* row-major order and the native parameters are registered in that same   *)
(* order, so the exported parameter list matches the left-to-right         *)
(* appearance of the placeholders in the SQL text                          *)
(***************************************************************************)
InsertParameterOrder ==
    (InsertRendered /\ pc \in {"built", "rebuilt"}) => ParametersMatchText

\* what holds of the code: the first rendering of a builder matches
InsertParameterOrderFirstRender ==
    (InsertRendered /\ pc = "built") => ParametersMatchText

\* a first rendering of two rows with a bound value each
InsertParameterOrderWitness ==
    /\ InsertRendered /\ pc = "built"
    /\ Cardinality(PlaceholderCells) = 2
    /\ Len(statement.tuples) = 2

\* the same builder rendered a second time
RenderedAgainWitness ==
    /\ InsertRendered /\ pc = "rebuilt"
    /\ Cardinality(PlaceholderCells) = 2

\* getQuery() of the builder has ended, with a text or with an error
Finished == pc \in {"built", "getQueryFailed"}

\* the keys of the value set passed to set()
SuppliedKeys ==
    IF expressionMap.valuesSet.t = "object"
    THEN SeqToSet(ObjectKeys(expressionMap.valuesSet.v))
    ELSE {}

\* the value set supplies an updatable column: a key of a bare table, or
\* the property of a column of the metadata whose isUpdate flag is set
SuppliesUpdatableColumn ==
    IF MetadataBacked
    THEN \E i \in DOMAIN expressionMap.mainAlias.columns :
            /\ expressionMap.mainAlias.columns[i].isUpdate
            /\ expressionMap.mainAlias.columns[i].propertyPath \in SuppliedKeys
    ELSE SuppliedKeys # {}

\* the metadata declares a version column or an update-date column
DeclaresTouch ==
    /\ MetadataBacked
    /\ \/ expressionMap.mainAlias.versionColumn # Undefined
       \/ expressionMap.mainAlias.updateDateColumn # Undefined

ValuesMissingRaised ==
    /\ pc = "getQueryFailed"
    /\ outcome = UpdateValuesMissingError
    /\ statement = NoStatement

(***************************************************************************)
(* C14: rendering an UPDATE fails with UpdateValuesMissingError and        *)
(* produces no SQL text whenever the value set is missing or is an object  *)
(* that supplies no updatable column                                       *)
(***************************************************************************)
UpdateRequiresValues ==
    (Updating /\ Finished /\ ~SuppliesUpdatableColumn) => ValuesMissingRaised

\* what holds of the code: the error is raised when the value set is
\* missing, or supplies no updatable column of a target that declares
\* neither a version nor an update-date column
UpdateRequiresValuesUntouched ==
    (/\ Updating /\ Finished /\ ~SuppliesUpdatableColumn
     /\ (expressionMap.valuesSet.t # "object" \/ ~DeclaresTouch))
        => ValuesMissingRaised

\* an empty value-set object on a target without version and update-date
\* columns was refused
UpdateRequiresValuesWitness ==
    /\ Updating /\ ValuesMissingRaised
    /\ expressionMap.valuesSet.t = "object"
    /\ SuppliedKeys = {}
    /\ MetadataBacked

\* an empty value-set object yielded an UPDATE text
EmptyUpdateWitness ==
    /\ Updating /\ Rendered
    /\ expressionMap.valuesSet.t = "object"
    /\ SuppliedKeys = {}

\* the assignments to a column in the text of an UPDATE
AssignmentsTo(column) ==
    Occurrences(statement.sql, escape(driver, column.databaseName) \o " = ")

\* the text assigns the expression to the column
Assigns(column, expression) ==
    Contains(statement.sql,
             escape(driver, column.databaseName) \o " = " \o expression)

VersionIncrement(column) == escape(driver, column.databaseName) \o " + 1"

\* the caller's value set names the column
Targeted(column) == column.propertyPath \in SuppliedKeys

\* an UPDATE text was built for metadata that declares the touched column
TouchedUpdate(touched) ==
    /\ Updating /\ Rendered /\ MetadataBacked
    /\ expressionMap.mainAlias[touched] # Undefined

\* exactly one assignment to the touched column: the automatic one exactly
\* when the caller's own is not there
OneAssignment(touched, automatic, own) ==
    /\ Cardinality(AssignmentsTo(expressionMap.mainAlias[touched])) = 1
    /\ Assigns(expressionMap.mainAlias[touched], automatic) <=> ~own

(***************************************************************************)
(* C15 (as stated): every UPDATE emitted for metadata that declares a      *)
(* version column has exactly one assignment to that column in its SET     *)
(* clause, the caller's own when the caller targeted the column, otherwise *)
(* version = version + 1; the same for the update-date column with         *)
(* CURRENT_TIMESTAMP, on every driver                                      *)
(***************************************************************************)
VersionTouchAsStated ==
    /\ TouchedUpdate("versionColumn") =>
          OneAssignment("versionColumn",
                        VersionIncrement(expressionMap.mainAlias.versionColumn),
                        Targeted(expressionMap.mainAlias.versionColumn))
    /\ TouchedUpdate("updateDateColumn") =>
          OneAssignment("updateDateColumn", "CURRENT_TIMESTAMP",
                        Targeted(expressionMap.mainAlias.updateDateColumn))

(***************************************************************************)
(* C15 (amended): every UPDATE emitted for metadata that declares a        *)
(* version column has exactly one assignment to that column in its SET     *)
(* clause, the caller's own when the caller targeted the column and the    *)
(* column is updatable, otherwise version = version + 1; the same for the  *)
(* update-date column with CURRENT_TIMESTAMP, on every driver              *)
(***************************************************************************)
VersionTouch ==
    /\ TouchedUpdate("versionColumn") =>
          OneAssignment("versionColumn",
                        VersionIncrement(expressionMap.mainAlias.versionColumn),
                        /\ Targeted(expressionMap.mainAlias.versionColumn)
                        /\ expressionMap.mainAlias.versionColumn.isUpdate)
    /\ TouchedUpdate("updateDateColumn") =>
          OneAssignment("updateDateColumn", "CURRENT_TIMESTAMP",
                        /\ Targeted(expressionMap.mainAlias.updateDateColumn)
                        /\ expressionMap.mainAlias.updateDateColumn.isUpdate)

\* an update on a driver without returning support whose value set names
\* another column only: the version increment was appended
VersionTouchWitness ==
    /\ TouchedUpdate("versionColumn")
    /\ ~isReturningSqlSupported(driver)
    /\ SuppliedKeys = {"name"}
    /\ Assigns(expressionMap.mainAlias.versionColumn,
               VersionIncrement(expressionMap.mainAlias.versionColumn))

\* the caller's own assignment to the version column stands alone
OwnVersionWitness ==
    /\ TouchedUpdate("versionColumn")
    /\ Targeted(expressionMap.mainAlias.versionColumn)
    /\ ~Assigns(expressionMap.mainAlias.versionColumn,
                VersionIncrement(expressionMap.mainAlias.versionColumn))

\* the driver's placeholders carry no number: parameters bind by their order
BindsByOrder == PositionalPlaceholder(driver, 1) = "?"

\* a value the SET clause binds to a parameter instead of inlining it
IsBound(value) ==
    /\ value.t # "function"
    /\ ~(value.t = "null" /\ driver = "sap")

\* the parameters the SET clause binds for the value set: upd_<column> for
\* the updatable columns of the metadata, the raw key on a bare table
SetParameters ==
    IF MetadataBacked
    THEN {KV("upd_" \o expressionMap.mainAlias.columns[i].databaseName,
             ValueOf(expressionMap.valuesSet.v,
                     expressionMap.mainAlias.columns[i].propertyPath)) :
            i \in {j \in DOMAIN expressionMap.mainAlias.columns :
                     /\ expressionMap.mainAlias.columns[j].isUpdate
                     /\ Targeted(expressionMap.mainAlias.columns[j])
                     /\ IsBound(ValueOf(expressionMap.valuesSet.v,
                                        expressionMap.mainAlias.columns[j].propertyPath))}}
    ELSE {expressionMap.valuesSet.v[i] :
            i \in {j \in DOMAIN expressionMap.valuesSet.v :
                     IsBound(expressionMap.valuesSet.v[j].value)}}

\* getQuery() of an update builder returns a text in this step
RendersUpdate == Updating /\ pc = "building" /\ pc' = "built"

\* in the exported list every SET parameter stands before every parameter
\* registered before the rendering, each with its value
SetBeforePredicate ==
    \A s \in SetParameters : \A p \in SeqToSet(expressionMap.nativeParameters) :
        \E i \in DOMAIN expressionMap'.nativeParameters :
            \E j \in DOMAIN expressionMap'.nativeParameters :
                /\ i < j
                /\ expressionMap'.nativeParameters[i] = s
                /\ expressionMap'.nativeParameters[j] = p

\* no parameter registered before the rendering has the name of a SET parameter
DistinctNames ==
    \A s \in SetParameters : \A p \in SeqToSet(expressionMap.nativeParameters) :
        s.key # p.key

(***************************************************************************)
(* C16: after an UPDATE is rendered on a driver that binds parameters by   *)
(* order, every parameter bound for the SET clause precedes, in the        *)
(* exported native parameters, every parameter registered for the          *)
(* predicate before the rendering, and each keeps the value it was bound   *)
(* with                                                                    *)
(***************************************************************************)
SetParametersFirst ==
    [][(RendersUpdate /\ BindsByOrder) => SetBeforePredicate]_vars

\* what holds of the code: the same when no predicate parameter has the
\* name of a SET parameter
SetParametersFirstDistinct ==
    [][(RendersUpdate /\ BindsByOrder /\ DistinctNames) => SetBeforePredicate]_vars

\* an UPDATE rendered on a driver that binds by order, a SET parameter
\* exported before a predicate parameter
SetParametersFirstWitness ==
    /\ Updating /\ Rendered /\ BindsByOrder
    /\ Len(expressionMap.nativeParameters) = 2
    /\ expressionMap.nativeParameters[1] \in SetParameters
    /\ expressionMap.nativeParameters[2] \in PredicateParameters

\* an UPDATE rendered on a driver that binds by order: one exported
\* parameter under the name of a SET parameter, with the predicate's value
OverriddenSetParameterWitness ==
    /\ Updating /\ Rendered /\ BindsByOrder
    /\ Len(expressionMap.nativeParameters) = 1
    /\ \E s \in SetParameters :
          /\ expressionMap.nativeParameters[1].key = s.key
          /\ expressionMap.nativeParameters[1].value # s.value

\* getQuery() of an insert builder returns a text in this step
RendersInsert ==
    /\ Inserting
    /\ pc \in {"building", "built"}
    /\ pc' \in {"built", "rebuilt"}

\* the step keeps every parameter registered before it, name and value, and
\* adds one parameter for each of the bindings it makes
KeepsBindings(bindings) ==
    /\ \A p \in SeqToSet(expressionMap.nativeParameters) :
          p \in SeqToSet(expressionMap'.nativeParameters)
    /\ Len(expressionMap'.nativeParameters)
          = Len(expressionMap.nativeParameters) + bindings

(***************************************************************************)
(* C17: binding a value under a parameter name that is already registered  *)
(* never replaces or loses the earlier binding, the later binding gets a   *)
(* name of its own: rendering an INSERT or an UPDATE keeps every native    *)
(* parameter registered before and adds one per value it binds             *)
(***************************************************************************)
ParameterNamesUnique ==
    [][/\ RendersInsert => KeepsBindings(Cardinality(PlaceholderCells'))
       /\ RendersUpdate => KeepsBindings(Cardinality(SetParameters))]_vars

\* what holds of the code: the same when the names bound are not registered
\* yet
ParameterNamesFresh ==
    [][/\ (RendersInsert /\ expressionMap.nativeParameters = <<>>)
            => KeepsBindings(Cardinality(PlaceholderCells'))
       /\ (RendersUpdate /\ DistinctNames)
            => KeepsBindings(Cardinality(SetParameters))]_vars

\* an UPDATE rendered with numbered placeholders: the only exported
\* parameter has the SET value under the name a predicate parameter had
ReplacedBindingWitness ==
    /\ Updating /\ Rendered /\ ~BindsByOrder
    /\ Len(expressionMap.nativeParameters) = 1
    /\ expressionMap.nativeParameters[1] \in SetParameters
    /\ \E p \in PredicateParameters :
          /\ p.key = expressionMap.nativeParameters[1].key
          /\ p.value # expressionMap.nativeParameters[1].value
    /\ Contains(statement.sql, PositionalPlaceholder(driver, 2))

\* a DELETE text was built
DeleteRendered == Deleting /\ Rendered

\* a returning expression exists and the driver's returning style is the one
ReturnsAs(style) ==
    expressionMap.returning # "" /\ returningClause(driver) = style

\* the clauses of a DELETE in the order of the claim
DeleteShape ==
    "DELETE FROM " \o escape(driver, expressionMap.mainAlias.tableName)
    \o (IF ReturnsAs("output")
        THEN " OUTPUT " \o expressionMap.returning ELSE "")
    \o (IF expressionMap.wheres # <<>>
        THEN " WHERE " \o expressionMap.wheres[1].condition ELSE "")
    \o (IF ReturnsAs("returning")
        THEN " RETURNING " \o expressionMap.returning ELSE "")

(***************************************************************************)
(* C18: every emitted DELETE has the shape DELETE FROM <table>, then an    *)
(* OUTPUT clause only when the driver's returning style is "output" and a  *)
(* returning expression exists, then the WHERE clause, then a RETURNING    *)
(* clause only when the style is "returning" and a returning expression    *)
(* exists; no DELETE has both OUTPUT and RETURNING, and OUTPUT never       *)
(* follows WHERE                                                           *)
(***************************************************************************)
DeleteClausePlacement ==
    DeleteRendered =>
        /\ StartsWith(statement.sql, DeleteShape)
        /\ Contains(statement.sql, " OUTPUT ") <=> ReturnsAs("output")
        /\ Contains(statement.sql, " RETURNING ") <=> ReturnsAs("returning")
        /\ ~(Contains(statement.sql, " OUTPUT ")
             /\ Contains(statement.sql, " RETURNING "))
        /\ \A o \in Occurrences(statement.sql, " OUTPUT ") :
              \A w \in Occurrences(statement.sql, " WHERE ") : o < w
        /\ \A r \in Occurrences(statement.sql, " RETURNING ") :
              \A w \in Occurrences(statement.sql, " WHERE ") : w < r

\* a DELETE with a predicate on a driver of the output style, with a
\* returning expression
DeleteClausePlacementWitness ==
    /\ DeleteRendered
    /\ ReturnsAs("output")
    /\ expressionMap.wheres # <<>>
    /\ Contains(statement.sql, " OUTPUT ")
    /\ Contains(statement.sql, " WHERE ")

\* the same on a driver of the returning style
DeleteReturningWitness ==
    /\ DeleteRendered
    /\ ReturnsAs("returning")
    /\ expressionMap.wheres # <<>>
    /\ EndsWith(statement.sql, " RETURNING " \o expressionMap.returning)

\* the call threw ReturningStatementNotSupportedError and left the
\* expression map as it was
ReturningRefused ==
    /\ pc' = "returningFailed"
    /\ outcome' = ReturningStatementNotSupportedError
    /\ expressionMap' = expressionMap

\* the call replaced the returning specification by its argument and
\* returned the builder
ReturningReplaced ==
    /\ pc' = pc
    /\ outcome' = outcome
    /\ expressionMap'.returning \in ReturningInputs
    /\ expressionMap' = [expressionMap EXCEPT !.returning = expressionMap'.returning]

(***************************************************************************)
(* C19: returning() or output() on an insert, update or delete builder     *)
(* whose driver does not support returning SQL throws                      *)
(* ReturningStatementNotSupportedError and leaves the returning            *)
(* specification unchanged; on a supporting driver the specification is    *)
(* replaced by the argument, and it changes in no other way                *)
(***************************************************************************)
ReturningCapability ==
    [][/\ (Returning \/ Output) =>
             IF isReturningSqlSupported(driver)
             THEN ReturningReplaced ELSE ReturningRefused
       /\ (expressionMap'.returning # expressionMap.returning) =>
             isReturningSqlSupported(driver)]_vars

\* returning() was refused on a builder of a driver without returning
\* support
ReturningCapabilityWitness ==
    /\ pc = "returningFailed"
    /\ ~isReturningSqlSupported(driver)
    /\ outcome = ReturningStatementNotSupportedError
    /\ expressionMap.returning = ""
    /\ Deleting

\* returning() replaced the specification of an insert builder on a
\* supporting driver
ReturningReplacedWitness ==
    /\ Inserting
    /\ pc = "building"
    /\ isReturningSqlSupported(driver)
    /\ expressionMap.returning = "id"

\* an update or delete builder
Modifying == Updating \/ Deleting

\* limit() was called with a number
LimitSet == expressionMap.limit.t = "number"

\* the driver allows LIMIT on modification statements
AllowsLimit == driver = "mysql"

\* getQuery() threw LimitOnUpdateNotSupportedError and returned no text
LimitRefused ==
    /\ pc = "getQueryFailed"
    /\ outcome = LimitOnUpdateNotSupportedError
    /\ statement = NoStatement

\* getQuery() returned a text that ends with the limit
LimitEmitted ==
    /\ Rendered
    /\ EndsWith(statement.sql, " LIMIT " \o expressionMap.limit.v)

\* getQuery() has ended and the statement itself could be rendered
ModificationFinished ==
    Modifying /\ Finished /\ outcome # UpdateValuesMissingError

(***************************************************************************)
(* C20: whenever a limit has been set on an update or delete builder,      *)
(* getQuery() on a driver that does not allow LIMIT on modification        *)
(* statements fails with LimitOnUpdateNotSupportedError and returns no     *)
(* text, and on a driver that allows it the text ends with LIMIT <n>; a    *)
(* statement is never emitted with the requested limit dropped             *)
(***************************************************************************)
LimitOnModify ==
    (ModificationFinished /\ LimitSet) =>
        IF AllowsLimit THEN LimitEmitted ELSE LimitRefused

\* what holds of the code: the same for a limit other than zero
LimitOnModifyNonZero ==
    (ModificationFinished /\ LimitSet /\ expressionMap.limit.v # "0") =>
        IF AllowsLimit THEN LimitEmitted ELSE LimitRefused

\* a limited DELETE was refused on a driver that does not allow the limit
LimitOnModifyWitness ==
    /\ Deleting /\ LimitSet /\ ~AllowsLimit /\ LimitRefused

\* a limited UPDATE was rendered on a driver that allows the limit
LimitEmittedWitness ==
    /\ Updating /\ LimitSet /\ AllowsLimit /\ LimitEmitted

\* a text was returned for a builder limited to zero rows, without LIMIT
LimitDroppedWitness ==
    /\ Modifying /\ Rendered /\ LimitSet
    /\ expressionMap.limit.v = "0"
    /\ ~Contains(statement.sql, " LIMIT ")

\* orderBy() or addOrderBy() left an ordering on the builder
OrderingSet == Len(expressionMap.orderBys) > 0

\* the driver allows ORDER BY on modification statements: the drivers that
\* allow LIMIT there
AllowsOrderBy == AllowsLimit

(***************************************************************************)
(* C21: when an ordering has been set on an update or delete builder and   *)
(* the driver does not allow ORDER BY on modification statements,          *)
(* getQuery() fails before emitting any text; an ORDER BY fragment is      *)
(* emitted only on drivers that allow it                                   *)
(***************************************************************************)
OrderByOnModify ==
    /\ (ModificationFinished /\ OrderingSet /\ ~AllowsOrderBy) =>
          (pc = "getQueryFailed" /\ statement = NoStatement)
    /\ (Modifying /\ Rendered /\ Contains(statement.sql, " ORDER BY ")) =>
          AllowsOrderBy

\* what holds of the code: a rendered text carries an ORDER BY fragment
\* exactly when an ordering was set, on every driver
OrderByAlwaysEmitted ==
    (Modifying /\ Rendered) =>
        (Contains(statement.sql, " ORDER BY ") <=> OrderingSet)

\* an ordered DELETE was rendered, ORDER BY included, on a driver that does
\* not allow ORDER BY on modification statements
OrderByEmittedWitness ==
    /\ Deleting /\ Rendered /\ OrderingSet /\ ~AllowsOrderBy
    /\ Contains(statement.sql, " ORDER BY ")

\* the conflict handling the expression map holds after the caller's calls
IgnoreRequested == expressionMap.onIgnore
ConflictRequested == expressionMap.onConflict # ""
UpdateRequested(field) ==
    /\ expressionMap.onUpdate # Undefined
    /\ expressionMap.onUpdate[field] # Undefined

\* the text carries the clause the request stands for
IgnoreEmitted ==
    \/ Contains(statement.sql, " IGNORE ")
    \/ Contains(statement.sql, " ON CONFLICT DO NOTHING")
ConflictEmitted ==
    Contains(statement.sql, " ON CONFLICT " \o expressionMap.onConflict)
UpdateEmitted(field) ==
    \/ Contains(statement.sql,
                " DO UPDATE SET " \o expressionMap.onUpdate[field].v)
    \/ Contains(statement.sql,
                " ON DUPLICATE KEY UPDATE " \o expressionMap.onUpdate[field].v)

\* the drivers createInsertExpression has a clause for
SupportsIgnore == driver \in {"postgres", "sqlite", "mysql"}
SupportsOnConflict == driver \in {"postgres", "sqlite"}
SupportsUpdate == driver \in {"postgres", "sqlite", "mysql"}

\* an INSERT text was returned by getQuery()
InsertReturned == Inserting /\ Rendered

(***************************************************************************)
(* C22: when the caller requests conflict handling on an insert and the    *)
(* driver has no support for that clause, no SQL is emitted: an INSERT is  *)
(* never emitted with the requested conflict clause omitted                *)
(***************************************************************************)
UpsertCapability ==
    InsertReturned =>
        /\ IgnoreRequested => IgnoreEmitted
        /\ ConflictRequested => ConflictEmitted
        /\ UpdateRequested("columns") => UpdateEmitted("columns")
        /\ UpdateRequested("overwrite") => UpdateEmitted("overwrite")

\* what holds of the code: the requested clause is emitted on the drivers
\* createInsertExpression has a clause for
UpsertEmittedWhereSupported ==
    InsertReturned =>
        /\ (IgnoreRequested /\ SupportsIgnore) => IgnoreEmitted
        /\ (ConflictRequested /\ SupportsOnConflict) => ConflictEmitted
        /\ (UpdateRequested("columns") /\ SupportsUpdate)
              => UpdateEmitted("columns")
        /\ (UpdateRequested("overwrite") /\ SupportsUpdate)
              => UpdateEmitted("overwrite")

\* an INSERT returned after orIgnore() on a driver without a clause for it:
\* the text says nothing of the request
IgnoreOmittedWitness ==
    /\ InsertReturned /\ IgnoreRequested /\ ~SupportsIgnore
    /\ ~IgnoreEmitted
    /\ ~Contains(statement.sql, "CONFLICT")

\* an INSERT returned after orIgnore() on a driver with a clause for it
IgnoreEmittedWitness ==
    /\ InsertReturned /\ IgnoreRequested /\ SupportsIgnore /\ IgnoreEmitted

\* how many of the four conflict requests the expression map holds
ConflictRequests ==
    Cardinality({request \in {"ignore", "conflict", "columns", "overwrite"} :
        \/ request = "ignore" /\ IgnoreRequested
        \/ request = "conflict" /\ ConflictRequested
        \/ request \in {"columns", "overwrite"} /\ UpdateRequested(request)})

\* orUpdate() was given a conflict target
TargetNamed ==
    /\ expressionMap.onUpdate # Undefined
    /\ expressionMap.onUpdate.conflict # Undefined

\* the conflict clauses of the emitted text
ConflictClauseCount ==
    Cardinality(Occurrences(statement.sql, "ON CONFLICT"))
        + Cardinality(Occurrences(statement.sql, "ON DUPLICATE KEY UPDATE"))

(***************************************************************************)
(* C30: for every combination of orIgnore(), onConflict() and orUpdate()   *)
(* calls an emitted INSERT holds at most one conflict-handling clause, and *)
(* an emitted ON CONFLICT ... DO UPDATE names a conflict target            *)
(***************************************************************************)
SingleConflictClause ==
    InsertReturned =>
        /\ ConflictClauseCount <= 1
        /\ ~Contains(statement.sql, "ON CONFLICT undefined DO UPDATE")

\* what holds of the code: one clause per request the driver has a clause
\* for, and a named target when orUpdate() was given one
ConflictClausePerRequest ==
    InsertReturned =>
        /\ ConflictClauseCount <= ConflictRequests
        /\ ConflictRequests <= 1 => ConflictClauseCount <= 1
        /\ TargetNamed => ~Contains(statement.sql, "ON CONFLICT undefined")

\* an INSERT with two conflict clauses
TwoConflictClausesWitness ==
    /\ InsertReturned
    /\ ConflictClauseCount >= 2

\* an INSERT whose DO UPDATE clause names no target
UnnamedTargetWitness ==
    /\ InsertReturned
    /\ ~TargetNamed
    /\ Contains(statement.sql, "ON CONFLICT undefined DO UPDATE SET ")

\* an INSERT with one DO UPDATE clause on a named target
NamedTargetWitness ==
    /\ InsertReturned
    /\ ConflictClauseCount = 1
    /\ TargetNamed
    /\ Contains(statement.sql, " ON CONFLICT  ( id )  DO UPDATE SET ")

\* the calls recorded are calls of where(), andWhere() and orWhere(), made
\* directly or by the methods taking ids
OnlyConditionCalls ==
    /\ invoked.recording
    /\ \A i \in DOMAIN invoked.log :
          invoked.log[i].call \in {"where", "and", "or"}

\* the position of the most recent where() in the record, 0 without one
LastWhere ==
    IF \E i \in DOMAIN invoked.log : invoked.log[i].call = "where"
    THEN CHOOSE i \in DOMAIN invoked.log :
            /\ invoked.log[i].call = "where"
            /\ \A j \in DOMAIN invoked.log :
                  invoked.log[j].call = "where" => j <= i
    ELSE 0

\* the entry the most recent where() stands for
SimpleOfLastWhere ==
    IF LastWhere = 0 \/ invoked.log[LastWhere].argument = "" THEN <<>>
    ELSE <<[type |-> "simple", condition |-> invoked.log[LastWhere].argument]>>

\* the entries of the calls made after the most recent where(), in call order
AddedAfterLastWhere ==
    [k \in 1..(Len(invoked.log) - LastWhere) |->
        [type |-> invoked.log[LastWhere + k].call,
         condition |-> invoked.log[LastWhere + k].argument]]

(***************************************************************************)
(* C23: after any sequence of where(), andWhere() and orWhere() calls the  *)
(* where list is the condition of the most recent where() (one "simple"    *)
(* entry, none when the condition was empty) followed by exactly the "and" *)
(* and "or" entries added after it, in call order                          *)
(***************************************************************************)
WhereOverride ==
    OnlyConditionCalls =>
        expressionMap.wheres = SimpleOfLastWhere \o AddedAfterLastWhere

\* a where() with a condition, made after an earlier condition call and
\* followed by a later one
WhereOverrideWitness ==
    /\ OnlyConditionCalls
    /\ LastWhere > 1
    /\ LastWhere < Len(invoked.log)
    /\ Len(expressionMap.wheres) = 2
    /\ expressionMap.wheres[1].type = "simple"

\* a where() with an empty condition, made after an earlier condition call
EmptyWhereWitness ==
    /\ OnlyConditionCalls
    /\ LastWhere = Len(invoked.log)
    /\ LastWhere > 1
    /\ invoked.log[LastWhere].argument = ""
    /\ expressionMap.wheres = <<>>

\* this step is a call of whereEntity()
WhereEntityStep ==
    /\ invoked.recording
    /\ Len(invoked'.log) = Len(invoked.log) + 1
    /\ invoked'.log[Len(invoked'.log)].call = "whereEntity"

\* the entities given to the whereEntity() of this step
GivenEntities == invoked'.log[Len(invoked'.log)].argument

\* the where list is one OR-ed id condition for each of the entities
IdConditionsOf(given, wheres) ==
    /\ Len(wheres) = Len(given)
    /\ \A i \in DOMAIN wheres :
          /\ wheres[i].type = "or"
          /\ wheres[i].condition = "id = " \o ValueOf(given[i].v, "id").v

\* a whereEntity() that succeeds replaces the where list by the id conditions
\* of the entities and sets whereEntities to them
WhereEntitySucceeded ==
    outcome'.t # "error" =>
        /\ IdConditionsOf(GivenEntities, expressionMap'.wheres)
        /\ expressionMap'.whereEntities = GivenEntities

(***************************************************************************)
(* C29: a whereEntity() that fails leaves the where conditions and the     *)
(* whereEntities of the builder as they were before the call; one that     *)
(* succeeds for N entities replaces the where list by exactly N OR-ed id   *)
(* conditions and sets whereEntities to the given entities                 *)
(***************************************************************************)
WhereEntityAllOrNothing ==
    [][WhereEntityStep =>
          /\ outcome'.t = "error" =>
                /\ expressionMap'.wheres = expressionMap.wheres
                /\ expressionMap'.whereEntities = expressionMap.whereEntities
          /\ WhereEntitySucceeded]_vars

\* what holds of the code: the failure on a main alias without metadata
\* leaves the expression map as it was, the failure on an entity without ids
\* leaves whereEntities as they were, and the success is as stated
WhereEntityUntouchedWithoutMetadata ==
    [][WhereEntityStep =>
          /\ outcome' = WhereEntityMetadataError
                => expressionMap' = expressionMap
          /\ outcome'.t = "error"
                => expressionMap'.whereEntities = expressionMap.whereEntities
          /\ WhereEntitySucceeded]_vars

\* a whereEntity() succeeded for two entities
WhereEntityWitness ==
    /\ invoked.recording
    /\ Len(invoked.log) > 0
    /\ invoked.log[Len(invoked.log)].call = "whereEntity"
    /\ Len(invoked.log[Len(invoked.log)].argument) = 2
    /\ outcome = NoError
    /\ Len(expressionMap.wheres) = 2
    /\ expressionMap.whereEntities = invoked.log[Len(invoked.log)].argument

\* a DELETE rendered without WHERE after where("id = 1") and a whereEntity()
\* that failed on an entity without ids
PredicateLostWitness ==
    /\ invoked.recording
    /\ Len(invoked.log) = 2
    /\ invoked.log[1].call = "where"
    /\ invoked.log[1].argument = "id = 1"
    /\ invoked.log[2].call = "whereEntity"
    /\ invoked.log[2].argument = <<WithoutId>>
    /\ scn = "delete"
    /\ pc = "built"
    /\ ~Contains(statement.sql, "WHERE")

\* a whereEntity() refused on a main alias without metadata, after a where()
WhereEntityRefusedWitness ==
    /\ invoked.recording
    /\ Len(invoked.log) = 2
    /\ invoked.log[2].call = "whereEntity"
    /\ outcome = WhereEntityMetadataError
    /\ expressionMap.wheres = <<WhereEntry("simple", "id = 1")>>

\* a set(), add() or remove() has ended
RelationCalled == pc = "related"

\* the call that ended
RelationCall == invoked.log[Len(invoked.log)]

\* the call is not one for the type of the relation
CardinalityMismatch ==
    \/ /\ RelationCall.call = "set"
       /\ expressionMap.relationMetadata.relationType
             \in {"many-to-many", "one-to-many"}
    \/ /\ RelationCall.call \in {"add", "remove"}
       /\ expressionMap.relationMetadata.relationType
             \in {"many-to-one", "one-to-one"}

\* of() was not called before
OfNeverCalled == expressionMap.of = Undefined

\* the call ended with an error
RelationFailed == outcome.t = "error"

\* neither the updater nor the remover was invoked
CollaboratorsIdle == sent = <<>>

\* add([]) and remove([]): there is nothing to bind or to unbind
NothingGiven ==
    /\ RelationCall.call \in {"add", "remove"}
    /\ RelationCall.argument = List(<<>>)

\* C24 as stated: for every value the call fails
RelationCardinalityAsStated ==
    (RelationCalled /\ (CardinalityMismatch \/ OfNeverCalled)) =>
        /\ RelationFailed
        /\ CollaboratorsIdle

(***************************************************************************)
(* C24: set() on a many-to-many or one-to-many relation, add() or remove() *)
(* on a many-to-one or one-to-one relation, and each of the three without  *)
(* a prior of(), never invokes the relation updater or remover, and fails  *)
(* with an error for every value but the empty array given to add() or     *)
(* remove(), for which the call returns without an error                   *)
(***************************************************************************)
RelationCardinality ==
    (RelationCalled /\ (CardinalityMismatch \/ OfNeverCalled)) =>
        /\ CollaboratorsIdle
        /\ RelationFailed <=> ~NothingGiven

\* an add() or remove() refused for the type of the relation, after of()
RelationCardinalityWitness ==
    /\ RelationCalled
    /\ CardinalityMismatch
    /\ ~OfNeverCalled
    /\ outcome = AddUnsupportedError
    /\ CollaboratorsIdle

\* a set() refused for the type of the relation, after of()
SetRefusedWitness ==
    /\ RelationCalled
    /\ CardinalityMismatch
    /\ outcome = SetUnsupportedError

\* an add([]) on a many-to-one relation without of(): no error
NothingGivenWitness ==
    /\ RelationCalled
    /\ CardinalityMismatch
    /\ OfNeverCalled
    /\ NothingGiven
    /\ outcome = NoError

\* a call for the type of the relation reached its collaborator
HandedOnWitness ==
    /\ RelationCalled
    /\ ~CardinalityMismatch
    /\ Len(sent) = 1
    /\ sent[1].value = RelationCall.argument

\* the first row of every group of the main alias, in the order of the groups
FirstRows ==
    [i \in DOMAIN group(rawResults, Main) |->
        group(rawResults, Main)[i].items[1]]

\* the query shapes without joins: every value hydration reads from the rows
\* belongs to the main alias
OwnValuesOnly == expressionMap.joinAttributes = <<>>

\* some group of the main alias holds rows that differ
GroupRowsDiffer ==
    \E i \in DOMAIN group(rawResults, Main) :
        \E n \in DOMAIN group(rawResults, Main)[i].items :
            group(rawResults, Main)[i].items[n] # FirstRows[i]

(***************************************************************************)
(* C25: when the rows of a group differ in a value of the group's own      *)
(* alias, every value hydration reads for that alias (plain columns,       *)
(* discriminator, reference column of relation counts, parent join-column  *)
(* value map of relation ids) is the one of the first row of the group:    *)
(* the entities are those the first rows alone hydrate to                  *)
(***************************************************************************)
FirstRowTrusted ==
    (Hydrated /\ OwnValuesOnly) => entities = transform(FirstRows, Main)

\* what holds of the code: the plain column values and the reference column
\* of relation counts are those of the first row
FirstRowTrustedColumnsAndCounts ==
    /\ (Hydrated /\ scn \in {"counts", "linkside"})
          => entities = transform(FirstRows, Main)
    /\ (Hydrated /\ scn = "tagids") =>
          /\ Len(entities) = Len(FirstRows)
          /\ \A i \in DOMAIN entities :
                /\ GetProperty(entities[i], "id") = FirstRows[i].p_id
                /\ GetProperty(entities[i], "code") = FirstRows[i].p_code

\* a relation count correlated on the reference column of the first row of
\* a group whose rows differ in it
FirstRowCountWitness ==
    /\ Hydrated /\ scn = "counts"
    /\ Len(rawResults) = 2
    /\ rawResults[1].p_id = rawResults[2].p_id
    /\ rawResults[1].p_code = One /\ rawResults[2].p_code = Two
    /\ Len(rawRelationCountResults[1].results) = 1
    /\ rawRelationCountResults[1].results[1].parentId = One
    /\ GetProperty(entities[1], "tagCount") = Num("3")

\* relation ids correlated on the join-column value of the last row of a
\* group whose rows differ in it
LastRowValueMapWitness ==
    /\ Hydrated /\ scn = "tagids"
    /\ Len(rawResults) = 2
    /\ rawResults[1].p_id = rawResults[2].p_id
    /\ rawResults[1].p_code = One /\ rawResults[2].p_code = Two
    /\ Len(rawRelationIdResults[1].results) = 1
    /\ rawRelationIdResults[1].results[1].postCode = Two
    /\ GetProperty(entities[1], "tagIds") # List(<<>>)
    /\ GetProperty(transform(FirstRows, Main)[1], "tagIds") = List(<<>>)

\* a subtype picked by the discriminator value of a later row of the group
LaterRowDiscriminatorWitness ==
    /\ Hydrated /\ scn = "sti"
    /\ Len(rawResults) = 2
    /\ rawResults[1].p_id = rawResults[2].p_id
    /\ rawResults[1].p_type = Str("Question")
    /\ rawResults[2].p_type = Str("Photo")
    /\ entities[1].meta = "Photo"

\* the ordered tuple of the normalised key-column values of a row
KeyTuple(row, aliasName) ==
    [i \in DOMAIN GroupColumns(MetadataOf(aliasName)) |->
        KeyValue(RowGet(row, GroupKeys(aliasName,
                                GroupColumns(MetadataOf(aliasName)))[i]))]

\* group() placed the two rows in one group
SameGroup(rows, aliasName, first, second) ==
    \E i \in DOMAIN group(rows, aliasName) :
        /\ first \in SeqToSet(group(rows, aliasName)[i].items)
        /\ second \in SeqToSet(group(rows, aliasName)[i].items)

(***************************************************************************)
(* C26: group() places two raw rows in the same group if and only if their *)
(* ordered tuples of normalised key-column values are equal                *)
(***************************************************************************)
GroupingKeyIsTuple ==
    Hydrated =>
        \A aliasName \in DOMAIN expressionMap.aliases :
            \A m, n \in DOMAIN rawResults :
                SameGroup(rawResults, aliasName, rawResults[m], rawResults[n])
                    <=> KeyTuple(rawResults[m], aliasName)
                            = KeyTuple(rawResults[n], aliasName)

\* what holds of the code: rows of equal key tuples are in one group, and
\* for a single key column the rows of one group have equal key tuples
GroupingKeyIsJoinedText ==
    Hydrated =>
        \A aliasName \in DOMAIN expressionMap.aliases :
            \A m, n \in DOMAIN rawResults :
                /\ KeyTuple(rawResults[m], aliasName)
                        = KeyTuple(rawResults[n], aliasName)
                     => SameGroup(rawResults, aliasName,
                                  rawResults[m], rawResults[n])
                /\ SameGroup(rawResults, aliasName, rawResults[m], rawResults[n])
                     <=> GroupId(rawResults[m], aliasName)
                            = GroupId(rawResults[n], aliasName)
                /\ (Len(GroupColumns(MetadataOf(aliasName))) = 1
                    /\ SameGroup(rawResults, aliasName,
                                 rawResults[m], rawResults[n]))
                     => KeyTuple(rawResults[m], aliasName)
                            = KeyTuple(rawResults[n], aliasName)

\* two rows of different key tuples hydrated to one entity
MergedTuplesWitness ==
    /\ Hydrated /\ scn = "pairs"
    /\ Len(rawResults) = 2
    /\ KeyTuple(rawResults[1], Main) # KeyTuple(rawResults[2], Main)
    /\ Len(group(rawResults, Main)) = 1
    /\ Len(entities) = 1

\* two rows of different key tuples hydrated to two entities, and two of
\* equal key tuples to one
SeparateTuplesWitness ==
    /\ Hydrated /\ scn = "pairs"
    /\ Len(rawResults) = 3
    /\ KeyTuple(rawResults[1], Main) # KeyTuple(rawResults[2], Main)
    /\ KeyTuple(rawResults[1], Main) = KeyTuple(rawResults[3], Main)
    /\ Len(entities) = 2

\* the selected joins hydrated onto the entity of an alias
SelectedJoins(aliasName) ==
    {i \in JoinsUnder(aliasName) :
        JoinApplies(expressionMap.joinAttributes[i], aliasName,
                    MetadataOf(aliasName))}

\* the join finds a child entity in the rows
FindsChild(rows, i) ==
    transform(rows, expressionMap.joinAttributes[i].alias) # <<>>

\* no relation-id and no relation-count side result holds a row for the alias
NoSideValues(aliasName) ==
    /\ \A i \in DOMAIN rawRelationIdResults :
          rawRelationIdResults[i].relationIdAttribute.parentAlias = aliasName
              => rawRelationIdResults[i].results = <<>>
    /\ \A i \in DOMAIN rawRelationCountResults :
          rawRelationCountResults[i].relationCountAttribute.parentAlias = aliasName
              => rawRelationCountResults[i].results = <<>>

\* what transformJoins reports for a group
JoinsReported(rows, aliasName) ==
    transformJoins(rows, CreateEntity(MetadataOf(aliasName)), aliasName,
                   MetadataOf(aliasName)).hasData

(***************************************************************************)
(* C28: for an alias whose primary columns are all internal, a group with  *)
(* no plain column value whose selected joins all find no child entity,    *)
(* with no relation-id or relation-count value, yields no entity;          *)
(* transformJoins reports data only when a join produced a child entity    *)
(***************************************************************************)
EmptyJoinsNoContribution ==
    \A c \in Calls :
        /\ (/\ AllPrimaryColumnsInternal(c.alias)
            /\ ~ PlainValue(c.rows, c.alias)
            /\ \A i \in SelectedJoins(c.alias) : ~ FindsChild(c.rows, i)
            /\ NoSideValues(c.alias))
              => transformRawResultsGroup(c.rows, c.alias) = Undefined
        /\ JoinsReported(c.rows, c.alias)
              => \E i \in SelectedJoins(c.alias) : FindsChild(c.rows, i)

\* what holds of the code: transformJoins reports data exactly when a
\* selected join of the alias exists, whatever it finds, and a group without
\* plain value, selected join and side value yields no entity
SelectedJoinsContribute ==
    \A c \in Calls :
        /\ JoinsReported(c.rows, c.alias) <=> SelectedJoins(c.alias) # {}
        /\ (/\ ~ PlainValue(c.rows, c.alias)
            /\ SelectedJoins(c.alias) = {}
            /\ NoSideValues(c.alias))
              => transformRawResultsGroup(c.rows, c.alias) = Undefined

\* an entity holding nothing but a null relation
NullJoinEntityWitness ==
    /\ Hydrated /\ scn = "link"
    /\ Len(rawResults) = 1
    /\ rawResults[1].q_id = Null
    /\ Len(entities) = 1
    /\ DOMAIN entities[1].props = {"post"}
    /\ GetProperty(entities[1], "post") = Null

\* an entity of the same alias holding the child its join found
ChildJoinEntityWitness ==
    /\ Hydrated /\ scn = "link"
    /\ Len(rawResults) = 1
    /\ rawResults[1].q_id = One
    /\ Len(entities) = 1
    /\ GetProperty(entities[1], "post").t = "entity"


(***************************************************************************)
(* C27: identity override bracketing on SQL Server                         *)
(***************************************************************************)
IdentityOn == "SET IDENTITY_INSERT " \o getTableName(driver, expressionMap) \o " ON; "
IdentityOff == "; SET IDENTITY_INSERT " \o getTableName(driver, expressionMap) \o " OFF"

\* the text is the INSERT between the two SET IDENTITY_INSERT statements
Wrapped ==
    /\ StartsWith(statement.sql, IdentityOn \o "INSERT INTO ")
    /\ EndsWith(statement.sql, IdentityOff)

ExplicitColumnList == expressionMap.insertColumns # <<>>

\* the columns to insert: the listed ones, or the insertable ones
ColumnsToInsert ==
    { column \in SeqToSet(expressionMap.mainAlias.columns) :
        IF ExplicitColumnList
        THEN column.propertyPath \in SeqToSet(expressionMap.insertColumns)
        ELSE column.isInsert }

AutoIncrementKeys ==
    { column \in SeqToSet(expressionMap.mainAlias.columns) :
        /\ column.isPrimary
        /\ column.isGenerated
        /\ column.generationStrategy = "increment" }

GivenValueSets ==
    IF expressionMap.valuesSet.t = "list" THEN expressionMap.valuesSet.l
    ELSE <<expressionMap.valuesSet.v>>

\* the value set has an explicit non-null value for the column
Supplies(valueSet, column) ==
    \E i \in DOMAIN valueSet :
        /\ valueSet[i].key = column.propertyPath
        /\ valueSet[i].value.t \notin {"undefined", "null"}

KeyOverridden(column) ==
    \E k \in DOMAIN GivenValueSets : Supplies(GivenValueSets[k], column)

KeySuppliedThroughout(column) ==
    \A k \in DOMAIN GivenValueSets : Supplies(GivenValueSets[k], column)

\* the column list of the INSERT text: what stands between the first pair
\* of parentheses, the empty text when there is none
InsertedColumnList(sql) ==
    IF Contains(sql, "(")
    THEN SubSeq(sql, FirstOf(sql, "(") + 1, FirstOf(sql, ")") - 1)
    ELSE ""

KeyListed(column) ==
    Contains(InsertedColumnList(statement.sql),
             escape(driver, column.databaseName))

RenderedOnSqlServer == pc = "built" /\ driver = "mssql"

\* wrapped exactly when some auto-increment primary column to insert has an
\* explicit non-null value in a value set
WrappedWhenOverridden ==
    Wrapped <=> \E column \in AutoIncrementKeys \cap ColumnsToInsert :
                    KeyOverridden(column)

\* with no explicit column list the key is listed exactly when wrapped
KeyListedWhenWrapped ==
    ~ExplicitColumnList =>
        \A column \in AutoIncrementKeys : KeyListed(column) <=> Wrapped

\* C27 as stated: on SQL Server the INSERT is wrapped in SET IDENTITY_INSERT
\* ON/OFF exactly when some auto-increment primary column to insert has an
\* explicit non-null value in a value set; with no explicit column list that
\* column is in the column list exactly when the statement is wrapped; and
\* whenever the statement is wrapped every value set supplies a non-null
\* value for that column
IdentityBracketing ==
    RenderedOnSqlServer =>
        /\ WrappedWhenOverridden
        /\ KeyListedWhenWrapped
        /\ Wrapped => \A column \in AutoIncrementKeys \cap ColumnsToInsert :
                          KeySuppliedThroughout(column)

\* C27, what holds: the wrapping and the listing of the key follow some
\* value set supplying the key, and no other dialect wraps
IdentityBracketingSomeValueSet ==
    pc = "built" =>
        IF driver = "mssql"
        THEN WrappedWhenOverridden /\ KeyListedWhenWrapped
        ELSE ~Wrapped

\* a wrapped INSERT whose value sets all supply the key
IdentityWrappedWitness ==
    /\ RenderedOnSqlServer
    /\ Wrapped
    /\ Len(GivenValueSets) = 2
    /\ \A column \in AutoIncrementKeys : KeyListed(column)
                                         /\ KeySuppliedThroughout(column)

\* a wrapped INSERT with a value set that leaves the key out
IdentityMixedValueSetsWitness ==
    /\ RenderedOnSqlServer
    /\ Wrapped
    /\ ~ExplicitColumnList
    /\ \E column \in AutoIncrementKeys \cap ColumnsToInsert :
          /\ KeyListed(column)
          /\ \E k \in DOMAIN GivenValueSets :
                ColumnValue(column, GivenValueSets[k]) = Undefined

\* an INSERT left unwrapped because the key is given as null only
IdentityUnwrappedWitness ==
    /\ RenderedOnSqlServer
    /\ ~Wrapped
    /\ ~ExplicitColumnList
    /\ AutoIncrementKeys \cap ColumnsToInsert # {}
    /\ \A column \in AutoIncrementKeys : ~KeyListed(column)
    /\ \E column \in AutoIncrementKeys, k \in DOMAIN GivenValueSets :
          ColumnValue(column, GivenValueSets[k]) = Null
====
